---- MODULE Spec2Model ----
(***************************************************************************)
(* Flow ordering, parallel grouping, project sequence identity and the     *)
(* CSV codec of the flowcopy editor (src/app/page.tsx).                    *)
(*                                                                         *)
(* Strings are sequences of UTF-16 code units (naturals), because the hash *)
(* and the codecs work character by character.  A node is                  *)
(* [id, position: [x, y]], an edge is [id, source, target, edge_kind,      *)
(* is_reversed]; edge data is always normalized (normalizeEdgeData), so    *)
(* the kind is read from data.edge_kind.                                   *)
(***************************************************************************)
EXTENDS Integers, Sequences, FiniteSets, TLC

VARIABLES
    nodes,      \* useNodesState: the node array of the canvas
    edges,      \* useEdgesState: the edge array of the canvas
    adminOptions,                \* useState: the option lists of the project
    controlledLanguageGlossary,  \* useState: the glossary of the project
    undoStack,              \* useState: the last snapshots, at most three
    undoCaptureTimeoutRef,  \* the snapshot waiting for its timer, if any
    transferFeedback,       \* useState: the message of the last export or import
    flatRows,   \* the flat rows handed to the export
    fileText,   \* the text of the exported file, once it is written
    parsed,     \* what the import parsed from the file, once it is read
    hashed,     \* a text and, once it is hashed, its token
    detected,   \* a file name and a text and, once it is looked at, its format
    run,        \* the loops of computeFlowOrdering, one iteration at a time
    session,    \* store.session: the view and the id of the active project
    store,      \* the canvas of every project of the account, as it is persisted
    pendingImport  \* the import that waits for file.text(), if any

canvasVars == <<nodes, edges>>
editorVars == <<adminOptions, controlledLanguageGlossary, undoStack,
                undoCaptureTimeoutRef, transferFeedback>>
fileVars == <<flatRows, fileText, parsed>>
sessionVars == <<session, store, pendingImport>>
restVars == <<detected, run, sessionVars>>
vars == <<canvasVars, editorVars, fileVars, hashed, restVars>>

----------------------------------------------------------------------------
(* Bounds of the model. *)

MaxNodes == 3
MaxEdges == 2
MaxRows == 2
MaxCellLen == 1
NumColumns == 2
MaxTextLen == 3

\* ids "a", "b", "c" of nodes that may be on the canvas, and "z", an id no node has
NodeIds == {<<97>>, <<98>>, <<99>>}
UnknownId == <<122>>

----------------------------------------------------------------------------
(* Generic helpers. *)

\* Array.prototype.sort(cmp): the stable sort; element i goes to the place
\* given by the number of elements that sort before it.
StableSort(s, cmp(_, _)) ==
    LET n == Len(s)
        rank(i) == Cardinality({j \in 1..n :
                        \/ cmp(s[j], s[i]) < 0
                        \/ (cmp(s[j], s[i]) = 0 /\ j < i)}) + 1
    IN  [k \in 1..n |-> s[CHOOSE i \in 1..n : rank(i) = k]]

RECURSIVE compareCodeUnits(_, _)
\* the default comparison of Array.prototype.sort(): by UTF-16 code units
compareCodeUnits(a, b) ==
    IF a = <<>> /\ b = <<>> THEN 0
    ELSE IF a = <<>> THEN -1
    ELSE IF b = <<>> THEN 1
    ELSE IF Head(a) < Head(b) THEN -1
    ELSE IF Head(a) > Head(b) THEN 1
    ELSE compareCodeUnits(Tail(a), Tail(b))

\* String.prototype.localeCompare on the ids of the model (lower-case ASCII
\* letters), where the collation order is the alphabetical order
localeCompare(a, b) == compareCodeUnits(a, b)

RECURSIVE join(_, _)
\* Array.prototype.join(sep)
join(strs, sep) ==
    IF strs = <<>> THEN <<>>
    ELSE IF Len(strs) = 1 THEN strs[1]
    ELSE strs[1] \o sep \o join(Tail(strs), sep)

Elems(s) == {s[k] : k \in 1..Len(s)}

IdsOf(ns) == {ns[i].id : i \in 1..Len(ns)}

\* new Map(nodes.map(node => [node.id, node])): the last node of an id wins
nodeByIdOf(ns) ==
    [id \in IdsOf(ns) |->
        ns[CHOOSE i \in 1..Len(ns) :
              /\ ns[i].id = id
              /\ \A j \in 1..Len(ns) : ns[j].id = id => j <= i]]

getEdgeKind(edge) == edge.edge_kind
isSequentialEdge(edge) == getEdgeKind(edge) = "sequential"
isParallelEdge(edge) == getEdgeKind(edge) = "parallel"

----------------------------------------------------------------------------
(* compareNodeOrder: x ascending, then y ascending, then id. *)

compareNodeOrderNoId(a, b) ==
    IF a.position.x # b.position.x THEN a.position.x - b.position.x
    ELSE IF a.position.y # b.position.y THEN a.position.y - b.position.y
    ELSE 0

compareNodeOrder(a, b) ==
    IF a.position.x # b.position.x THEN a.position.x - b.position.x
    ELSE IF a.position.y # b.position.y THEN a.position.y - b.position.y
    ELSE localeCompare(a.id, b.id)

----------------------------------------------------------------------------
(* computeParallelGroups: connected components over parallel edges. *)

\* "PG-" + sorted member ids joined by "|"
buildParallelGroupId(componentNodeIds) ==
    <<80, 71, 45>> \o join(StableSort(componentNodeIds, localeCompare), <<124>>)

RECURSIVE parallelAdjacencyOneWay(_, _, _)
\* edges.forEach with adjacency.get(source).add(target) only
parallelAdjacencyOneWay(es, known, adjacency) ==
    IF es = <<>> THEN adjacency
    ELSE LET edge == Head(es)
             skip == \/ ~isParallelEdge(edge)
                     \/ edge.source \notin known
                     \/ edge.target \notin known
         IN  parallelAdjacencyOneWay(Tail(es), known,
                 IF skip \/ \E k \in 1..Len(adjacency[edge.source]) :
                                adjacency[edge.source][k] = edge.target
                 THEN adjacency
                 ELSE [adjacency EXCEPT ![edge.source] = Append(@, edge.target)])

RECURSIVE parallelAdjacency(_, _, _)
\* edges.forEach: adjacency.get(source).add(target), adjacency.get(target).add(source);
\* each Set keeps its members in insertion order
parallelAdjacency(es, known, adjacency) ==
    IF es = <<>> THEN adjacency
    ELSE LET edge == Head(es)
             skip == \/ ~isParallelEdge(edge)
                     \/ edge.source \notin known
                     \/ edge.target \notin known
             addTo(adj, from, to) ==
                 IF \E k \in 1..Len(adj[from]) : adj[from][k] = to THEN adj
                 ELSE [adj EXCEPT ![from] = Append(@, to)]
         IN  parallelAdjacency(Tail(es), known,
                 IF skip THEN adjacency
                 ELSE addTo(addTo(adjacency, edge.source, edge.target),
                            edge.target, edge.source))

RECURSIVE traverseComponent(_, _, _, _)
\* the while (stack.length > 0) loop: pop, record, push the unvisited neighbours
traverseComponent(adjacency, stack, visited, component) ==
    IF stack = <<>> THEN [component |-> component, visited |-> visited]
    ELSE LET currentNodeId == stack[Len(stack)]
             rest == SubSeq(stack, 1, Len(stack) - 1)
             currentNeighbors == StableSort(adjacency[currentNodeId], localeCompare)
             fresh == SelectSeq(currentNeighbors, LAMBDA n : n \notin visited)
         IN  traverseComponent(adjacency, rest \o fresh,
                 visited \cup {fresh[k] : k \in 1..Len(fresh)},
                 Append(component, currentNodeId))

RECURSIVE visitSortedNodes(_, _, _, _, _)
\* sortedNodes.forEach: one component per unvisited node that has a neighbour
visitSortedNodes(sortedNodes, adjacency, visited, components, groupOf) ==
    IF sortedNodes = <<>>
    THEN [componentNodeIds |-> components, parallelGroupByNodeId |-> groupOf]
    ELSE LET node == Head(sortedNodes)
         IN  IF node.id \in visited
             THEN visitSortedNodes(Tail(sortedNodes), adjacency, visited, components, groupOf)
             ELSE IF adjacency[node.id] = <<>>
             THEN visitSortedNodes(Tail(sortedNodes), adjacency,
                      visited \cup {node.id}, components, groupOf)
             ELSE LET t == traverseComponent(adjacency, <<node.id>>,
                               visited \cup {node.id}, <<>>)
                      normalizedComponent == StableSort(t.component, localeCompare)
                      groupId == buildParallelGroupId(normalizedComponent)
                      members == {normalizedComponent[k] :
                                      k \in 1..Len(normalizedComponent)}
                  IN  visitSortedNodes(Tail(sortedNodes), adjacency, t.visited,
                          Append(components, normalizedComponent),
                          [id \in DOMAIN groupOf \cup members |->
                              IF id \in members THEN groupId ELSE groupOf[id]])

compareComponents(a, b) == localeCompare(a[1], b[1])

computeParallelGroups(ns, es) ==
    LET known == IdsOf(ns)
        adjacency == parallelAdjacency(es, known, [id \in known |-> <<>>])
        sortedNodes == StableSort(ns, compareNodeOrder)
        r == visitSortedNodes(sortedNodes, adjacency, {}, <<>>, <<>>)
    IN  [parallelGroupByNodeId |-> r.parallelGroupByNodeId,
         componentNodeIds |-> StableSort(r.componentNodeIds, compareComponents)]

----------------------------------------------------------------------------
(* computeFlowOrdering: Kahn's algorithm over sequential edges, the cycle   *)
(* fallback, and the normalization of sequence numbers by parallel group.   *)

skipsSelfLoops(edge, known, adjacency) ==
    \/ edge.source \notin known
    \/ edge.target \notin known
    \/ edge.source = edge.target
    \/ \E k \in 1..Len(adjacency[edge.source]) :
           adjacency[edge.source][k] = edge.target

\* the two early returns of sequentialEdges.forEach: an unknown endpoint, or
\* a target that is already a neighbour of the source
skipsSequentialEdge(edge, known, adjacency) ==
    \/ edge.source \notin known
    \/ edge.target \notin known
    \/ \E k \in 1..Len(adjacency[edge.source]) :
           adjacency[edge.source][k] = edge.target

RECURSIVE sequentialAdjacencyCountingDuplicates(_, _, _)
\* sequentialEdges.forEach without neighbors.has(edge.target): the Set takes
\* the target once, indegree counts it again
sequentialAdjacencyCountingDuplicates(es, known, acc) ==
    IF es = <<>> THEN acc
    ELSE LET edge == Head(es)
             unknown == edge.source \notin known \/ edge.target \notin known
         IN  sequentialAdjacencyCountingDuplicates(Tail(es), known,
                 IF unknown THEN acc
                 ELSE [adjacency |->
                           IF skipsSequentialEdge(edge, known, acc.adjacency)
                           THEN acc.adjacency
                           ELSE [acc.adjacency EXCEPT ![edge.source] = Append(@, edge.target)],
                       indegree  |-> [acc.indegree EXCEPT ![edge.target] = @ + 1]])

RECURSIVE sequentialAdjacency(_, _, _)
\* sequentialEdges.forEach: neighbours (a Set, in insertion order) and indegree
sequentialAdjacency(es, known, acc) ==
    IF es = <<>> THEN acc
    ELSE LET edge == Head(es)
             skip == skipsSequentialEdge(edge, known, acc.adjacency)
         IN  sequentialAdjacency(Tail(es), known,
                 IF skip THEN acc
                 ELSE [adjacency |-> [acc.adjacency EXCEPT ![edge.source] = Append(@, edge.target)],
                       indegree  |-> [acc.indegree EXCEPT ![edge.target] = @ + 1]])

isReleasedEarly(nextIndegree) == nextIndegree <= 1

\* if (nextIndegree === 0): the last predecessor has been emitted
isReleased(nextIndegree) == nextIndegree = 0

RECURSIVE releaseNeighborsUnsorted(_, _, _)
\* releaseNeighbors without the sort of available after a push
releaseNeighborsUnsorted(sortedNeighbors, available, indegree) ==
    IF sortedNeighbors = <<>> THEN [available |-> available, indegree |-> indegree]
    ELSE LET neighbor == Head(sortedNeighbors)
             nextIndegree == indegree[neighbor.id] - 1
         IN  releaseNeighborsUnsorted(Tail(sortedNeighbors),
                 IF isReleased(nextIndegree) THEN Append(available, neighbor)
                 ELSE available,
                 [indegree EXCEPT ![neighbor.id] = nextIndegree])

RECURSIVE releaseNeighbors(_, _, _)
\* sortedNeighbors.forEach: decrement, and on zero push and re-sort available
releaseNeighbors(sortedNeighbors, available, indegree) ==
    IF sortedNeighbors = <<>> THEN [available |-> available, indegree |-> indegree]
    ELSE LET neighbor == Head(sortedNeighbors)
             nextIndegree == indegree[neighbor.id] - 1
         IN  releaseNeighbors(Tail(sortedNeighbors),
                 IF isReleased(nextIndegree)
                 THEN StableSort(Append(available, neighbor), compareNodeOrder)
                 ELSE available,
                 [indegree EXCEPT ![neighbor.id] = nextIndegree])

RECURSIVE kahnLoop(_, _, _, _, _)
\* while (available.length > 0): shift, emit, release the neighbours
kahnLoop(nodeById, adjacency, available, indegree, orderedNodeIds) ==
    IF available = <<>> THEN orderedNodeIds
    ELSE LET current == Head(available)
             neighborIds == adjacency[current.id]
             sortedNeighbors ==
                 StableSort([k \in 1..Len(neighborIds) |-> nodeById[neighborIds[k]]],
                            compareNodeOrder)
             r == releaseNeighbors(sortedNeighbors, Tail(available), indegree)
         IN  kahnLoop(nodeById, adjacency, r.available, r.indegree,
                      Append(orderedNodeIds, current.id))

maxOf(S) == CHOOSE m \in S : \A v \in S : m >= v

\* Math.min(...componentIndices)
minOf(S) == CHOOSE m \in S : \A v \in S : m <= v

RECURSIVE normalizeSequence(_, _)
\* componentNodeIds.forEach: every member takes the minimum index of the component
normalizeSequence(components, sequenceByNodeId) ==
    IF components = <<>> THEN sequenceByNodeId
    ELSE LET component == Head(components)
             members == {component[k] : k \in 1..Len(component)}
             componentIndices == {sequenceByNodeId[id] :
                                     id \in members \cap DOMAIN sequenceByNodeId}
         IN  normalizeSequence(Tail(components),
                 IF componentIndices = {} THEN sequenceByNodeId
                 ELSE [id \in DOMAIN sequenceByNodeId \cup members |->
                          IF id \in members THEN minOf(componentIndices)
                          ELSE sequenceByNodeId[id]])

\* the cycle fallback without its sort: the nodes that were not emitted
\* are appended in array order
withUnresolvedUnsorted(ns, emitted) ==
    LET unresolved ==
            SelectSeq(ns, LAMBDA n : ~\E k \in 1..Len(emitted) : emitted[k] = n.id)
    IN  emitted \o [k \in 1..Len(unresolved) |-> unresolved[k].id]

withoutUnresolved(ns, emitted) == emitted

\* hasCycle and the cycle fallback: the nodes Kahn's loop did not emit are
\* appended in comparator order
withUnresolved(ns, emitted) ==
    LET hasCycle == Len(emitted) # Len(ns)
        unresolved ==
            StableSort(SelectSeq(ns, LAMBDA n :
                           ~\E k \in 1..Len(emitted) : emitted[k] = n.id),
                       compareNodeOrder)
    IN  IF hasCycle
        THEN emitted \o [k \in 1..Len(unresolved) |-> unresolved[k].id]
        ELSE emitted

rankByNodeIdFromZero(orderedNodeIds) ==
    [id \in {orderedNodeIds[k] : k \in 1..Len(orderedNodeIds)} |->
        (CHOOSE r \in 1..Len(orderedNodeIds) : orderedNodeIds[r] = id) - 1]

\* orderedNodeIds.reduce: acc[nodeId] = index + 1 (a later index overwrites)
rankByNodeId(orderedNodeIds) ==
    [id \in {orderedNodeIds[k] : k \in 1..Len(orderedNodeIds)} |->
        CHOOSE r \in 1..Len(orderedNodeIds) :
            /\ orderedNodeIds[r] = id
            /\ \A q \in 1..Len(orderedNodeIds) : orderedNodeIds[q] = id => q <= r]

\* [...nodes].sort by sequenceByNodeId[id] ?? Number.MAX_SAFE_INTEGER, then
\* by compareNodeOrder: a missing number sorts after every rank
sortBySequence(ns, sequenceByNodeId) ==
    LET has(n) == n.id \in DOMAIN sequenceByNodeId
        bySequence(a, b) ==
            IF has(a) /\ has(b) /\ sequenceByNodeId[a.id] # sequenceByNodeId[b.id]
            THEN sequenceByNodeId[a.id] - sequenceByNodeId[b.id]
            ELSE IF has(a) /\ ~has(b) THEN -1
            ELSE IF ~has(a) /\ has(b) THEN 1
            ELSE compareNodeOrder(a, b)
    IN  StableSort(ns, bySequence)

computeFlowOrdering(ns, es) ==
    LET nodeById == nodeByIdOf(ns)
        known == IdsOf(ns)
        sequentialEdges == SelectSeq(es, isSequentialEdge)
        graph == sequentialAdjacency(sequentialEdges, known,
                     [adjacency |-> [id \in known |-> <<>>],
                      indegree  |-> [id \in known |-> 0]])
        available == StableSort(SelectSeq(ns, LAMBDA n : graph.indegree[n.id] = 0),
                                compareNodeOrder)
        emitted == kahnLoop(nodeById, graph.adjacency, available, graph.indegree, <<>>)
        hasCycle == Len(emitted) # Len(ns)
        orderedNodeIds == withUnresolved(ns, emitted)
        parallelGroupInfo == computeParallelGroups(ns, es)
        sequenceByNodeId ==
            normalizeSequence(parallelGroupInfo.componentNodeIds,
                              rankByNodeId(orderedNodeIds))
        sortedBySequence == sortBySequence(ns, sequenceByNodeId)
    IN  [orderedNodeIds           |-> [k \in 1..Len(ns) |-> sortedBySequence[k].id],
         sequentialOrderedNodeIds |-> orderedNodeIds,
         sequenceByNodeId         |-> sequenceByNodeId,
         parallelGroupByNodeId    |-> parallelGroupInfo.parallelGroupByNodeId,
         hasCycle                 |-> hasCycle]

----------------------------------------------------------------------------
(* hashToBase36: 32-bit FNV-1a.  A 32-bit word is [hi, lo], two 16-bit      *)
(* halves, so that no intermediate value leaves the integers of the checker.*)

RECURSIVE xor16(_, _)
\* bitwise exclusive or of two naturals
xor16(a, b) ==
    IF a = 0 THEN b
    ELSE IF b = 0 THEN a
    ELSE (((a % 2) + (b % 2)) % 2) + 2 * xor16(a \div 2, b \div 2)

hashStepWithoutShift7(w, charCode) ==
    LET sumLo(lo) == lo + lo * 2 + lo * 16 + lo * 256
        sumHi(lo) == w.hi + w.hi * 2 + w.hi * 16 + w.hi * 256 + (lo % 256) * 256
        halves(lo, low) == [hi |-> (sumHi(lo) + low \div 65536) % 65536, lo |-> low % 65536]
    IN  CHOOSE r \in {halves(lo, sumLo(lo)) : lo \in {xor16(w.lo, charCode)}} : TRUE

\* hash ^= charCode;
\* hash += (hash << 1) + (hash << 4) + (hash << 7) + (hash << 8) + (hash << 24)
\* modulo 2^32: the low and the high halves of the six summands are added
\* separately, and the carry of the low half goes into the high half; the
\* low half of hash << 24 is zero and its high half is the low byte of hash
hashStep(w, charCode) ==
    LET sumLo(lo) == lo + lo * 2 + lo * 16 + lo * 128 + lo * 256
        sumHi(lo) == w.hi + w.hi * 2 + w.hi * 16 + w.hi * 128 + w.hi * 256
                         + (lo % 256) * 256
        halves(lo, low) == [hi |-> (sumHi(lo) + low \div 65536) % 65536,
                            lo |-> low % 65536]
    IN  CHOOSE r \in {halves(lo, sumLo(lo)) : lo \in {xor16(w.lo, charCode)}} : TRUE

RECURSIVE hashLoop(_, _)
hashLoop(w, value) ==
    IF value = <<>> THEN w
    ELSE \* the hash so far is bound to a value before the loop goes on, so
         \* that the checker computes it once
         CHOOSE r \in {hashLoop(next, Tail(value)) : next \in {hashStep(w, Head(value))}} : TRUE

\* 2166136261 = 0x811C9DC5
FnvOffsetBasis == [hi |-> 33052, lo |-> 40389]

\* one digit of toString(36).toUpperCase()
base36Digit(d) == IF d < 10 THEN 48 + d ELSE 55 + d

RECURSIVE toBase36(_)
\* (hash >>> 0).toString(36).toUpperCase()
toBase36(w) ==
    LET t == (w.hi % 36) * 65536 + w.lo
        q == [hi |-> w.hi \div 36, lo |-> t \div 36]
        d == t % 36
    IN  IF q.hi = 0 /\ q.lo = 0 THEN <<base36Digit(d)>>
        ELSE Append(toBase36(q), base36Digit(d))

RECURSIVE padStart(_, _, _)
padStart(str, width, fill) ==
    IF Len(str) >= width THEN str ELSE padStart(<<fill>> \o str, width, fill)

hashToBase36(value) == padStart(toBase36(hashLoop(FnvOffsetBasis, value)), 7, 48)

----------------------------------------------------------------------------
(* computeProjectSequenceId *)

\* "v1|order:", "|edges:", "FLOW-", ">", "->", "|"
PayloadPrefix == <<118, 49, 124, 111, 114, 100, 101, 114, 58>>
EdgesPrefix == <<124, 101, 100, 103, 101, 115, 58>>
FlowPrefix == <<70, 76, 79, 87, 45>>

sequencePayloadOrderOnly(orderedNodeIds, ns, es) ==
    PayloadPrefix \o join(orderedNodeIds, <<62>>) \o EdgesPrefix

sequencePayloadByPosition(orderedNodeIds, ns, es) ==
    LET validNodeIds == IdsOf(ns)
        byPosition == StableSort(ns, compareNodeOrder)
        kept == SelectSeq(es, LAMBDA e :
                    /\ isSequentialEdge(e)
                    /\ e.source \in validNodeIds
                    /\ e.target \in validNodeIds)
        signatures == [k \in 1..Len(kept) |-> kept[k].source \o <<45, 62>> \o kept[k].target]
    IN  PayloadPrefix \o join([k \in 1..Len(ns) |-> byPosition[k].id], <<62>>)
            \o EdgesPrefix \o join(StableSort(signatures, compareCodeUnits), <<124>>)

\* the string that is hashed: "v1|order:" a>b>c "|edges:" sorted source->target
sequencePayload(orderedNodeIds, ns, es) ==
    LET validNodeIds == IdsOf(ns)
        kept == SelectSeq(es, LAMBDA e :
                    /\ isSequentialEdge(e)
                    /\ e.source \in validNodeIds
                    /\ e.target \in validNodeIds)
        signatures == [k \in 1..Len(kept) |-> kept[k].source \o <<45, 62>> \o kept[k].target]
    IN  PayloadPrefix \o join(orderedNodeIds, <<62>>) \o EdgesPrefix
            \o join(StableSort(signatures, compareCodeUnits), <<124>>)

computeProjectSequenceId(orderedNodeIds, ns, es) ==
    FlowPrefix \o hashToBase36(sequencePayload(orderedNodeIds, ns, es))

----------------------------------------------------------------------------
(* The CSV codec.  A flat row is a function from column name to cell text. *)

\* the columns of FLAT_EXPORT_COLUMNS that the import reads back, in the
\* order of the list; the other columns of the file are left out
session_activeProjectId ==
    <<115, 101, 115, 115, 105, 111, 110, 95, 97, 99, 116, 105, 118, 101, 80,
    114, 111, 106, 101, 99, 116, 73, 100>>
project_id == <<112, 114, 111, 106, 101, 99, 116, 95, 105, 100>>
node_id == <<110, 111, 100, 101, 95, 105, 100>>
node_order_id ==
    <<110, 111, 100, 101, 95, 111, 114, 100, 101, 114, 95, 105, 100>>
sequence_index ==
    <<115, 101, 113, 117, 101, 110, 99, 101, 95, 105, 110, 100, 101, 120>>
position_x == <<112, 111, 115, 105, 116, 105, 111, 110, 95, 120>>
position_y == <<112, 111, 115, 105, 116, 105, 111, 110, 95, 121>>
project_admin_options_json ==
    <<112, 114, 111, 106, 101, 99, 116, 95, 97, 100, 109, 105, 110, 95, 111,
    112, 116, 105, 111, 110, 115, 95, 106, 115, 111, 110>>
project_controlled_language_json ==
    <<112, 114, 111, 106, 101, 99, 116, 95, 99, 111, 110, 116, 114, 111, 108,
    108, 101, 100, 95, 108, 97, 110, 103, 117, 97, 103, 101, 95, 106, 115,
    111, 110>>
project_edges_json ==
    <<112, 114, 111, 106, 101, 99, 116, 95, 101, 100, 103, 101, 115, 95, 106,
    115, 111, 110>>

FLAT_EXPORT_COLUMNS ==
    <<session_activeProjectId, project_id, node_id,
      node_order_id, sequence_index,
      position_x, position_y,
      project_admin_options_json, project_controlled_language_json,
      project_edges_json>>

Quote == 34
Comma == 44
LineFeed == 10
CarriageReturn == 13
ByteOrderMark == 65279

\* the characters String.prototype.trim removes, among the code units below 256
\* and the byte order mark
WhiteSpace == {9, 10, 11, 12, 13, 32, 160, ByteOrderMark}

RECURSIVE trimStart(_)
trimStart(str) ==
    IF str # <<>> /\ Head(str) \in WhiteSpace THEN trimStart(Tail(str)) ELSE str

RECURSIVE trimEnd(_)
trimEnd(str) ==
    IF str # <<>> /\ str[Len(str)] \in WhiteSpace
    THEN trimEnd(SubSeq(str, 1, Len(str) - 1)) ELSE str

trim(str) == trimEnd(trimStart(str))

RECURSIVE doubleQuotesBetween(_, _, _)
\* the characters first..last of value with every quote doubled; the range
\* is halved so that a long cell needs few nested evaluations
doubleQuotesBetween(value, first, last) ==
    IF first > last THEN <<>>
    ELSE IF first = last
    THEN (IF value[first] = Quote THEN <<Quote, Quote>> ELSE <<value[first]>>)
    ELSE LET middle == (first + last) \div 2
         IN  doubleQuotesBetween(value, first, middle)
                 \o doubleQuotesBetween(value, middle + 1, last)

\* value.replace(/"/g, '""')
doubleQuotes(value) == doubleQuotesBetween(value, 1, Len(value))

escapeCsvCellNoCarriageReturn(value) ==
    IF \E k \in 1..Len(value) : value[k] \in {Quote, Comma, LineFeed}
    THEN <<Quote>> \o doubleQuotes(value) \o <<Quote>>
    ELSE value

\* a cell with a quote, a comma, a line feed or a carriage return is put in
\* quotes, with its quotes doubled
escapeCsvCell(value) ==
    IF \E k \in 1..Len(value) : value[k] \in {Quote, Comma, LineFeed, CarriageReturn}
    THEN <<Quote>> \o doubleQuotes(value) \o <<Quote>>
    ELSE value

\* row[column] ?? ""
cellOf(row, column) == IF column \in DOMAIN row THEN row[column] ELSE <<>>

buildCsvFromRows(rows) ==
    LET header == join(FLAT_EXPORT_COLUMNS, <<Comma>>)
        lines == [r \in 1..Len(rows) |->
                     join([c \in 1..Len(FLAT_EXPORT_COLUMNS) |->
                              escapeCsvCell(cellOf(rows[r], FLAT_EXPORT_COLUMNS[c]))],
                          <<Comma>>)]
    IN  join(<<header>> \o lines, <<LineFeed>>)

\* one turn of the while (index < text.length) loop of parseCsvText: one
\* character, one escaped quote or one CR LF is consumed; st holds the
\* loop's variables
csvStep(text, st) ==
    LET char == text[st.index]
        nextIs(c) == st.index + 1 <= Len(text) /\ text[st.index + 1] = c
        closeCell == Append(st.currentRow, st.currentCell)
    IN  IF st.inQuotes
        THEN IF char = Quote
             THEN IF nextIs(Quote)
                  THEN [st EXCEPT !.currentCell = Append(@, Quote), !.index = @ + 2]
                  ELSE [st EXCEPT !.inQuotes = FALSE, !.index = @ + 1]
             ELSE [st EXCEPT !.currentCell = Append(@, char), !.index = @ + 1]
        ELSE IF char = Quote
        THEN [st EXCEPT !.inQuotes = TRUE, !.index = @ + 1]
        ELSE IF char = Comma
        THEN [st EXCEPT !.currentRow = closeCell, !.currentCell = <<>>, !.index = @ + 1]
        ELSE IF char = LineFeed \/ char = CarriageReturn
        THEN [st EXCEPT !.rows = Append(@, closeCell),
                        !.currentRow = <<>>,
                        !.currentCell = <<>>,
                        !.index = IF char = CarriageReturn /\ nextIs(LineFeed)
                                  THEN @ + 2 ELSE @ + 1]
        ELSE [st EXCEPT !.currentCell = Append(@, char), !.index = @ + 1]

RECURSIVE csvScanBetween(_, _, _, _)
\* the turns of the loop that start at an index in first..last: a turn is
\* taken at the index the loop has reached, and an index that an earlier
\* turn has consumed is passed over.  The range is halved, and the loop's
\* variables are bound to their values between the halves, so that a long
\* text needs few nested evaluations.
csvScanBetween(text, st, first, last) ==
    IF first > last THEN st
    ELSE IF first = last
    THEN (IF st.index = first THEN csvStep(text, st) ELSE st)
    ELSE LET middle == (first + last) \div 2
         IN  CHOOSE r \in {csvScanBetween(text, half, middle + 1, last) :
                              half \in {csvScanBetween(text, st, first, middle)}} : TRUE

\* the loop, and after it the push of the last cell and the last row
csvScan(text, st) ==
    LET end == csvScanBetween(text, st, 1, Len(text))
    IN  Append(end.rows, Append(end.currentRow, end.currentCell))

\* header.replace(/^﻿/, "") for the first header, then trim()
normalizeHeader(header, headerIndex) ==
    IF headerIndex = 1 /\ header # <<>> /\ Head(header) = ByteOrderMark
    THEN trim(Tail(header))
    ELSE trim(header)

\* row.some(cell => cell.trim().length > 0)
hasContent(row) == \E k \in 1..Len(row) : trim(row[k]) # <<>>

\* headers.forEach: record[header] = row[headerIndex] ?? "", an empty header
\* is skipped and a repeated header keeps its last column
recordOf(headers, row) ==
    [h \in {headers[k] : k \in {i \in 1..Len(headers) : headers[i] # <<>>}} |->
        LET last == CHOOSE k \in 1..Len(headers) :
                        /\ headers[k] = h
                        /\ \A j \in 1..Len(headers) : headers[j] = h => j <= k
        IN  IF last <= Len(row) THEN row[last] ELSE <<>>]

parseCsvText(text) ==
    LET rows == csvScan(text, [index |-> 1, inQuotes |-> FALSE, currentCell |-> <<>>,
                                  currentRow |-> <<>>, rows |-> <<>>])
        rawHeaders == Head(rows)
        bodyRows == Tail(rows)
        headers == [k \in 1..Len(rawHeaders) |-> normalizeHeader(rawHeaders[k], k)]
        kept == SelectSeq(bodyRows, hasContent)
    IN  [rows |-> [k \in 1..Len(kept) |-> recordOf(headers, kept[k])],
         headers |-> headers]

----------------------------------------------------------------------------
(* The XML codec.  buildXmlFromRows writes one element per row and one      *)
(* element per column; parseXmlText reads the text with the platform's XML  *)
(* parser (DOMParser, "application/xml"), which is modelled by what XML 1.0 *)
(* prescribes: line ends are normalized, the five predefined entities are   *)
(* decoded, and a text that is not well formed gives a parsererror          *)
(* document.                                                                *)

Ampersand == 38
Apostrophe == 39
LessThan == 60
GreaterThan == 62
Slash == 47
QuestionMark == 63
ExclamationMark == 33
Tab == 9
Space == 32

AmpEntity == <<38, 97, 109, 112, 59>>
LtEntity == <<38, 108, 116, 59>>
GtEntity == <<38, 103, 116, 59>>
QuotEntity == <<38, 113, 117, 111, 116, 59>>
AposEntity == <<38, 97, 112, 111, 115, 59>>

RECURSIVE concatBetween(_, _, _)
\* pieces[first] \o ... \o pieces[last]; the range is halved so that a long
\* text needs few nested evaluations
concatBetween(pieces, first, last) ==
    IF first > last THEN <<>>
    ELSE IF first = last THEN pieces[first]
    ELSE LET middle == (first + last) \div 2
         IN  concatBetween(pieces, first, middle)
                 \o concatBetween(pieces, middle + 1, last)

\* the five replace calls of escapeXmlText, of which the first replaces the
\* ampersands of the value and the others add none that it would replace
escapeXmlChar(char) ==
    IF char = Ampersand THEN AmpEntity
    ELSE IF char = LessThan THEN LtEntity
    ELSE IF char = GreaterThan THEN GtEntity
    ELSE IF char = Quote THEN QuotEntity
    ELSE IF char = Apostrophe THEN AposEntity
    ELSE <<char>>

escapeXmlText(value) ==
    concatBetween([k \in 1..Len(value) |-> escapeXmlChar(value[k])], 1, Len(value))

XmlDeclaration ==
    <<60, 63, 120, 109, 108, 32, 118, 101, 114, 115, 105, 111, 110, 61, 34,
    49, 46, 48, 34, 32, 101, 110, 99, 111, 100, 105, 110, 103, 61, 34, 85, 84,
    70, 45, 56, 34, 63, 62>>
RootOpen ==
    <<60, 102, 108, 111, 119, 99, 111, 112, 121, 69, 120, 112, 111, 114, 116,
    32, 102, 111, 114, 109, 97, 116, 86, 101, 114, 115, 105, 111, 110, 61, 34,
    49, 34, 62>>
RootClose ==
    <<60, 47, 102, 108, 111, 119, 99, 111, 112, 121, 69, 120, 112, 111, 114,
    116, 62>>
RowOpen == <<32, 32, 60, 114, 111, 119, 62>>
RowClose == <<32, 32, 60, 47, 114, 111, 119, 62>>
RowTag == <<114, 111, 119>>
XmlTarget == <<63, 120, 109, 108>>

\* `    <${column}>${escapeXmlText(row[column] ?? "")}</${column}>`
cellXml(row, column) ==
    <<Space, Space, Space, Space, LessThan>> \o column \o <<GreaterThan>>
        \o escapeXmlText(cellOf(row, column))
        \o <<LessThan, Slash>> \o column \o <<GreaterThan>>

buildXmlFromRows(rows) ==
    LET cells(row) == join([c \in 1..Len(FLAT_EXPORT_COLUMNS) |->
                               cellXml(row, FLAT_EXPORT_COLUMNS[c])], <<LineFeed>>)
        rowXml == join([r \in 1..Len(rows) |->
                           RowOpen \o <<LineFeed>> \o cells(rows[r]) \o <<LineFeed>>
                               \o RowClose], <<LineFeed>>)
    IN  XmlDeclaration \o <<LineFeed>> \o RootOpen \o <<LineFeed>> \o rowXml
            \o <<LineFeed>> \o RootClose

\* the production Char of XML 1.0 for the code unit at index: a tab, a line
\* feed, a carriage return, a character from the space on except 0xFFFE and
\* 0xFFFF, and a surrogate only as one half of a pair
isXmlChar(text, index) ==
    LET unit == text[index]
        isHigh(u) == 55296 <= u /\ u <= 56319
        isLow(u) == 56320 <= u /\ u <= 57343
    IN  IF isHigh(unit) THEN index < Len(text) /\ isLow(text[index + 1])
        ELSE IF isLow(unit) THEN index > 1 /\ isHigh(text[index - 1])
        ELSE unit \in {Tab, LineFeed, CarriageReturn} \/ (Space <= unit /\ unit <= 65533)

\* the production S of XML 1.0
XmlSpace == {Space, Tab, LineFeed, CarriageReturn}

\* the production Name of XML 1.0, among the code units below 128
isXmlName(name) ==
    LET isStart(u) == (65 <= u /\ u <= 90) \/ (97 <= u /\ u <= 122) \/ u \in {58, 95}
        isPart(u) == isStart(u) \/ (48 <= u /\ u <= 57) \/ u \in {45, 46}
    IN  /\ name # <<>>
        /\ isStart(name[1])
        /\ \A k \in 2..Len(name) : isPart(name[k])

PredefinedEntities ==
    {[text |-> AmpEntity, char |-> Ampersand], [text |-> LtEntity, char |-> LessThan],
     [text |-> GtEntity, char |-> GreaterThan], [text |-> QuotEntity, char |-> Quote],
     [text |-> AposEntity, char |-> Apostrophe]}

\* the predefined entity references that start at index, none or one
entitiesAt(buffer, index) ==
    {e \in PredefinedEntities :
        /\ index + Len(e.text) - 1 <= Len(buffer)
        /\ SubSeq(buffer, index, index + Len(e.text) - 1) = e.text}

\* 2.11 End-of-Line Handling of XML 1.0: a carriage return with the line
\* feed after it, and a carriage return alone, are read as one line feed
normalizeLineEnds(chars) ==
    IF \A k \in 1..Len(chars) : chars[k] # CarriageReturn THEN chars
    ELSE concatBetween([k \in 1..Len(chars) |->
                           IF chars[k] = CarriageReturn THEN <<LineFeed>>
                           ELSE IF chars[k] = LineFeed /\ k > 1
                                   /\ chars[k - 1] = CarriageReturn THEN <<>>
                           ELSE <<chars[k]>>], 1, Len(chars))

\* character data with its references replaced; an ampersand that starts no
\* predefined entity reference makes the text not well formed (the files of
\* the model hold no character reference and no declared entity)
decodeEntities(buffer) ==
    LET inReference(k) ==
            \E j \in (IF k > 5 THEN k - 5 ELSE 1)..k - 1 :
                \E e \in entitiesAt(buffer, j) : k < j + Len(e.text)
        piece(k) ==
            IF buffer[k] = Ampersand
            THEN {<<e.char>> : e \in entitiesAt(buffer, k)}
            ELSE IF inReference(k) THEN {<<>>}
            ELSE {<<buffer[k]>>}
    IN  IF \A k \in 1..Len(buffer) : buffer[k] # Ampersand
        THEN [ok |-> TRUE, text |-> buffer]
        ELSE IF \E k \in 1..Len(buffer) : piece(k) = {}
        THEN [ok |-> FALSE, text |-> <<>>]
        ELSE [ok |-> TRUE,
              text |-> concatBetween([k \in 1..Len(buffer) |->
                                         CHOOSE s \in piece(k) : TRUE], 1, Len(buffer))]

\* a row element with no cell yet: const rowRecord = {}
EmptyRecord == [c \in {} |-> <<>>]

\* rowRecord[key] = value
withCell(rowRecord, key, value) ==
    [c \in DOMAIN rowRecord \cup {key} |-> IF c = key THEN value ELSE rowRecord[c]]

\* the parser before the first character: position is the index of the last
\* character of the markup read so far; stack holds the open elements, the
\* innermost last: for each its name, the index of its record when it is a
\* row element, and the record and key it fills when its parent is a row
\* element
XmlParserStart ==
    [inTag |-> FALSE, position |-> 0, tagStart |-> 0, stack |-> <<>>,
     rootClosed |-> FALSE, rows |-> <<>>, headers |-> <<>>, error |-> FALSE]

\* character data after its references are replaced: outside the root
\* element only white space is well formed; inside, the text is part of the
\* textContent of every open element
xmlDecodedText(st, decoded) ==
    LET fills(r, c) == \E k \in 1..Len(st.stack) :
                           st.stack[k].cellRow = r /\ st.stack[k].cellKey = c
    IN  IF ~decoded.ok THEN [st EXCEPT !.error = TRUE]
        ELSE IF st.stack = <<>>
        THEN IF \A k \in 1..Len(decoded.text) : decoded.text[k] \in XmlSpace
             THEN st
             ELSE [st EXCEPT !.error = TRUE]
        ELSE [st EXCEPT
                 !.rows = [r \in 1..Len(st.rows) |->
                              [c \in DOMAIN st.rows[r] |->
                                  IF fills(r, c) THEN st.rows[r][c] \o decoded.text
                                  ELSE st.rows[r][c]]]]

\* character data between two pieces of markup
xmlText(st, chars) ==
    IF chars = <<>> THEN st
    ELSE xmlDecodedText(st, decodeEntities(normalizeLineEnds(chars)))

\* a start tag or an empty-element tag with the given content between < and >
xmlStartTag(st, content) ==
    LET isEmptyElement == content[Len(content)] = Slash
        body == IF isEmptyElement THEN SubSeq(content, 1, Len(content) - 1) ELSE content
        spaces == {k \in 1..Len(body) : body[k] \in XmlSpace}
        nameEnd == IF spaces = {} THEN Len(body)
                   ELSE (CHOOSE k \in spaces : \A j \in spaces : k <= j) - 1
        name == SubSeq(body, 1, nameEnd)
        parentRow == IF st.stack = <<>> THEN 0 ELSE st.stack[Len(st.stack)].row
        isRow == name = RowTag
        withRow == IF isRow THEN Append(st.rows, EmptyRecord) ELSE st.rows
        frame == [name |-> name,
                  row |-> IF isRow THEN Len(withRow) ELSE 0,
                  cellRow |-> parentRow,
                  cellKey |-> IF parentRow > 0 THEN name ELSE <<>>]
    IN  IF ~isXmlName(name) \/ (st.stack = <<>> /\ st.rootClosed)
        THEN [st EXCEPT !.error = TRUE]
        ELSE [st EXCEPT
                 !.rows = IF parentRow > 0
                          THEN [withRow EXCEPT ![parentRow] = withCell(@, name, <<>>)]
                          ELSE withRow,
                 !.headers = IF parentRow > 0 /\ name \notin Elems(st.headers)
                             THEN Append(@, name) ELSE @,
                 !.stack = IF isEmptyElement THEN @ ELSE Append(@, frame),
                 !.rootClosed = @ \/ (isEmptyElement /\ st.stack = <<>>)]

\* an end tag with the given content between < and >
xmlEndTag(st, content) ==
    LET spaces == {k \in 1..Len(content) : content[k] \in XmlSpace}
        nameEnd == IF spaces = {} THEN Len(content)
                   ELSE (CHOOSE k \in spaces : \A j \in spaces : k <= j) - 1
        name == SubSeq(content, 2, nameEnd)
    IN  IF st.stack = <<>> \/ st.stack[Len(st.stack)].name # name
        THEN [st EXCEPT !.error = TRUE]
        ELSE [st EXCEPT !.stack = SubSeq(@, 1, Len(@) - 1),
                        !.rootClosed = Len(st.stack) = 1]

\* markup with the given content between < and >: a processing instruction,
\* of which the XML declaration is well formed only at the start of the
\* text; a comment or a declaration, which adds no element (the files of the
\* model hold no CDATA section); an end tag; a start tag
xmlMarkupContent(st, content) ==
    IF content = <<>> THEN [st EXCEPT !.error = TRUE]
    ELSE IF content[1] = QuestionMark
    THEN IF \/ Len(content) < 3
            \/ content[Len(content)] # QuestionMark
            \/ /\ Len(content) >= Len(XmlTarget)
               /\ SubSeq(content, 1, Len(XmlTarget)) = XmlTarget
               /\ st.tagStart # 1
         THEN [st EXCEPT !.error = TRUE]
         ELSE st
    ELSE IF content[1] = ExclamationMark THEN st
    ELSE IF content[1] = Slash THEN xmlEndTag(st, content)
    ELSE xmlStartTag(st, content)

xmlMarkup(st, chars) == xmlMarkupContent(st, normalizeLineEnds(chars))

\* the parser reaches the < or > at index: a < ends character data and
\* starts markup, a > ends markup, a > in character data is a character of
\* it, and a < in markup is not well formed
xmlStep(text, st, index) ==
    IF st.error THEN st
    ELSE IF st.inTag
    THEN IF text[index] = GreaterThan
         THEN [xmlMarkup(st, SubSeq(text, st.tagStart + 1, index - 1))
                  EXCEPT !.inTag = FALSE, !.position = index]
         ELSE [st EXCEPT !.error = TRUE]
    ELSE IF text[index] = LessThan
    THEN [xmlText(st, SubSeq(text, st.position + 1, index - 1))
             EXCEPT !.inTag = TRUE, !.tagStart = index]
    ELSE st

RECURSIVE xmlScanBetween(_, _, _, _, _)
\* the parser reaches the marks first..last, the indices of the < and > of
\* the text in ascending order; the range is halved, and the parser's state
\* is bound to its value between the halves
xmlScanBetween(text, marks, st, first, last) ==
    IF first > last THEN st
    ELSE IF first = last THEN xmlStep(text, st, marks[first])
    ELSE LET middle == (first + last) \div 2
         IN  CHOOSE r \in {xmlScanBetween(text, marks, half, middle + 1, last) :
                              half \in {xmlScanBetween(text, marks, st, first, middle)}} :
                 TRUE

\* the parser at the end of the text: the character data after the last
\* markup is read
xmlEnd(text, read) ==
    IF read.error \/ read.inTag THEN read
    ELSE xmlText(read, SubSeq(text, read.position + 1, Len(text)))

\* the document of a text that the parser has read to its end
xmlDocument(text, end) ==
    IF \/ \E k \in 1..Len(text) : ~isXmlChar(text, k)
       \/ end.error \/ end.inTag \/ end.stack # <<>> \/ ~end.rootClosed
    THEN [parsererror |-> TRUE, rows |-> <<>>, headers |-> <<>>]
    ELSE [parsererror |-> FALSE, rows |-> end.rows, headers |-> end.headers]

xmlMarks(text) ==
    SelectSeq([k \in 1..Len(text) |-> k], LAMBDA k : text[k] \in {LessThan, GreaterThan})

xmlScan(text, marks) ==
    CHOOSE r \in {xmlScanBetween(text, marks, XmlParserStart, 1, Len(marks))} : TRUE

\* parser.parseFromString(text, "application/xml"): the row elements in
\* document order, each with the textContent of its child elements by tag
\* name, or a parsererror document
parseFromString(text) ==
    xmlDocument(text, xmlEnd(text, xmlScan(text, xmlMarks(text))))

xmlRowsOf(document) ==
    [error |-> document.parsererror, rows |-> document.rows,
     headers |-> document.headers]

\* throws Error("Invalid XML file.") on a parsererror document
parseXmlText(text) == xmlRowsOf(parseFromString(text))

----------------------------------------------------------------------------
(* The canvas state and the handlers that edit it.  The page derives       *)
(* ordering and projectSequenceId from nodes and edges with useMemo, so     *)
(* they are functions of the state.                                        *)

ordering == computeFlowOrdering(nodes, edges)

memoProjectSequenceIdOfDisplayOrder(ord, ns, es) ==
    computeProjectSequenceId(ord.orderedNodeIds, ns, es)

\* the page hashes the sequential order, not the display order
memoProjectSequenceId(ord, ns, es) ==
    computeProjectSequenceId(ord.sequentialOrderedNodeIds, ns, es)

projectSequenceId == memoProjectSequenceId(ordering, nodes, edges)

Positions == {[x |-> 0, y |-> 0], [x |-> 0, y |-> 1], [x |-> 1, y |-> 0]}

EdgeKinds == {"sequential", "parallel"}

Hyphen == 45

\* `e-${source}-${target}`
edgeBaseId(source, target) == <<101, Hyphen>> \o source \o <<Hyphen>> \o target

\* createNodeId().slice(0, 8) in the id of a new edge: the model keeps one
\* value for each kind of connection, "s" or "p", so that the ids of two
\* connections differ when the connections do
edgeIdSuffix(kind) == IF kind = "parallel" THEN <<112>> ELSE <<115>>

\* an edge as onConnect makes it; normalizeEdgeData keeps is_reversed for
\* sequential edges only
Edge(source, target, kind, reversed) ==
    [id |-> edgeBaseId(source, target) \o <<Hyphen>> \o edgeIdSuffix(kind),
     source |-> source, target |-> target, edge_kind |-> kind,
     is_reversed |-> (kind = "sequential" /\ reversed)]

\* the edges a stored project may hold: between any two ids, or with one
\* end at an id that no node has
EdgeValues ==
    {Edge(s, t, k, FALSE) : s \in NodeIds, t \in NodeIds, k \in EdgeKinds}
        \cup {Edge(<<97>>, UnknownId, k, FALSE) : k \in EdgeKinds}
        \cup {Edge(UnknownId, <<97>>, k, FALSE) : k \in EdgeKinds}

SeqsUpTo(S, n) == UNION {[1..k -> S] : k \in 0..n}

\* node arrays with pairwise distinct ids
NodeArrays ==
    {ns \in SeqsUpTo([id : NodeIds, position : Positions], MaxNodes) :
        \A i, j \in 1..Len(ns) : ns[i].id = ns[j].id => i = j}

EdgeArrays == SeqsUpTo(EdgeValues, MaxEdges)

NoFile == [written |-> FALSE, extension |-> "", text |-> <<>>]
NotParsed == [done |-> FALSE, error |-> FALSE, rows |-> <<>>, headers |-> <<>>]
NotHashed == [value |-> <<>>, token |-> <<>>, done |-> FALSE]

\* nothing has been exported or imported
NoFileTraffic ==
    /\ flatRows = <<>>
    /\ fileText = NoFile
    /\ parsed = NotParsed

\* the option lists of a new project; of the seven lists the model keeps tone
DEFAULT_GLOBAL_OPTIONS ==
    [tone |-> <<<<110, 101, 117, 116, 114, 97, 108>>,
                <<102, 114, 105, 101, 110, 100, 108, 121>>,
                <<102, 111, 114, 109, 97, 108>>,
                <<117, 114, 103, 101, 110, 116>>>>]

\* useState(null) of transferFeedback
NoFeedback == [type |-> "none", message |-> <<>>]

\* the editor state that createEmptyCanvas gives a project
EmptySnapshot ==
    [nodes |-> <<>>, edges |-> <<>>,
     adminOptions |-> DEFAULT_GLOBAL_OPTIONS,
     controlledLanguageGlossary |-> <<>>]

NoTimeout == [pending |-> FALSE, snapshot |-> EmptySnapshot]

\* default options, no glossary, an empty undo stack and no message; the
\* undo timer is either idle or armed by an edit of the empty canvas
EditorIdle(timerArmed) ==
    /\ adminOptions = DEFAULT_GLOBAL_OPTIONS
    /\ controlledLanguageGlossary = <<>>
    /\ undoStack = <<>>
    /\ undoCaptureTimeoutRef = [pending |-> timerArmed, snapshot |-> EmptySnapshot]
    /\ transferFeedback = NoFeedback

\* queueUndoSnapshot: nothing while a snapshot is waiting for its timer,
\* otherwise the current editor state is kept until the timer fires
queuedUndoSnapshot ==
    IF undoCaptureTimeoutRef.pending THEN undoCaptureTimeoutRef
    ELSE [pending |-> TRUE,
          snapshot |-> [nodes |-> nodes, edges |-> edges,
                        adminOptions |-> adminOptions,
                        controlledLanguageGlossary |-> controlledLanguageGlossary]]

\* no file name has been looked at
NotDetected == [name |-> <<>>, text |-> <<>>, done |-> FALSE, format |-> "none"]

\* the loops of computeFlowOrdering are not looked at
NotRunning ==
    [phase |-> "idle", available |-> <<>>, indegree |-> <<>>, orderedNodeIds |-> <<>>,
     sortedNodes |-> <<>>, visited |-> {}, stack |-> <<>>, pushed |-> <<>>,
     component |-> <<>>, componentNodeIds |-> <<>>]

\* no import waits for its file
NoPendingImport ==
    [pending |-> FALSE, projectId |-> <<>>, text |-> <<>>, extension |-> "",
     snapshot |-> EmptySnapshot]

\* the editor shows the project PRJ-A, and no other handler of the session
\* is looked at
RestIdle ==
    /\ detected = NotDetected
    /\ run = NotRunning
    /\ session = [view |-> "editor", activeProjectId |-> <<80, 82, 74, 45, 65>>]
    /\ store = <<>>
    /\ pendingImport = NoPendingImport

queueUndoSnapshot == undoCaptureTimeoutRef' = queuedUndoSnapshot

\* what a handler that only queues a snapshot leaves alone
othersUnchanged ==
    UNCHANGED <<adminOptions, controlledLanguageGlossary, undoStack,
                transferFeedback, fileVars, hashed, restVars>>

\* any node array with unique ids and any edge array: the inputs of the
\* ordering functions
Init ==
    /\ nodes \in NodeArrays
    /\ edges \in EdgeArrays
    /\ EditorIdle(TRUE)
    /\ NoFileTraffic
    /\ hashed = NotHashed
    /\ RestIdle

\* double click on the pane: a node with a fresh id is appended
addNodeAtEvent(id, position) ==
    /\ Len(nodes) < MaxNodes
    /\ id \notin IdsOf(nodes)
    /\ nodes' = Append(nodes, [id |-> id, position |-> position])
    /\ queueUndoSnapshot
    /\ UNCHANGED edges
    /\ othersUnchanged

\* a drag: applyNodeChanges with a position change of node i
onNodesChange(i, position) ==
    /\ i \in 1..Len(nodes)
    /\ nodes[i].position # position
    /\ nodes' = [nodes EXCEPT ![i].position = position]
    /\ queueUndoSnapshot
    /\ UNCHANGED edges
    /\ othersUnchanged

\* a new connection between two handles of nodes on the canvas; the kind
\* follows from the handles; addEdge leaves the array alone when the same
\* connection is already there
onConnect(source, target, kind) ==
    /\ Len(edges) < MaxEdges
    /\ source \in IdsOf(nodes)
    /\ target \in IdsOf(nodes)
    /\ ~\E k \in 1..Len(edges) :
           /\ edges[k].source = source
           /\ edges[k].target = target
           /\ edges[k].edge_kind = kind
    /\ edges' = Append(edges, Edge(source, target, kind, FALSE))
    /\ queueUndoSnapshot
    /\ UNCHANGED nodes
    /\ othersUnchanged

\* applyEdgeChanges with a remove change (also Delete on a selected edge)
onEdgesChange(i) ==
    /\ i \in 1..Len(edges)
    /\ edges' = [k \in 1..(Len(edges) - 1) |-> IF k < i THEN edges[k] ELSE edges[k + 1]]
    /\ queueUndoSnapshot
    /\ UNCHANGED nodes
    /\ othersUnchanged

\* the Direction select of the edge inspector, shown for sequential edges:
\* only data.is_reversed changes
updateSelectedEdgeData(i) ==
    /\ i \in 1..Len(edges)
    /\ edges[i].edge_kind = "sequential"
    /\ edges' = [edges EXCEPT ![i].is_reversed = ~edges[i].is_reversed]
    /\ queueUndoSnapshot
    /\ UNCHANGED nodes
    /\ othersUnchanged

Next ==
    \/ \E id \in NodeIds, p \in Positions : addNodeAtEvent(id, p)
    \/ \E i \in 1..MaxNodes, p \in Positions : onNodesChange(i, p)
    \/ \E s \in NodeIds, t \in NodeIds, k \in EdgeKinds : onConnect(s, t, k)
    \/ \E i \in 1..MaxEdges : onEdgesChange(i)

Spec == Init /\ [][Next]_vars

\* two nodes on an empty canvas, edited with the edge and drag handlers
InitIdentity ==
    /\ nodes \in {ns \in NodeArrays : IdsOf(ns) = {<<97>>, <<98>>}}
    /\ edges = <<>>
    /\ EditorIdle(TRUE)
    /\ NoFileTraffic
    /\ hashed = NotHashed
    /\ RestIdle

NextIdentity ==
    \/ \E i \in 1..MaxNodes, p \in Positions : onNodesChange(i, p)
    \/ \E s \in NodeIds, t \in NodeIds, k \in EdgeKinds : onConnect(s, t, k)
    \/ \E i \in 1..MaxEdges : onEdgesChange(i)
    \/ \E i \in 1..MaxEdges : updateSelectedEdgeData(i)

SpecIdentity == InitIdentity /\ [][NextIdentity]_vars

----------------------------------------------------------------------------
(* Export to a CSV file and import of that file. *)

\* the characters a cell is made of: a letter, a space, and the four
\* characters the codec treats specially
CellChars == {97, 32, Comma, Quote, LineFeed, CarriageReturn}
Cells == SeqsUpTo(CellChars, MaxCellLen)
\* a row has any cell in its first NumColumns columns and an empty text in the
\* others
FlatRows ==
    LET first == {FLAT_EXPORT_COLUMNS[k] : k \in 1..NumColumns}
    IN  {[c \in Elems(FLAT_EXPORT_COLUMNS) |-> IF c \in first THEN cells[c] ELSE <<>>] :
            cells \in [first -> Cells]}

InitCsv ==
    /\ nodes = <<>>
    /\ edges = <<>>
    /\ flatRows \in SeqsUpTo(FlatRows, MaxRows)
    /\ fileText = NoFile
    /\ parsed = NotParsed
    /\ EditorIdle(FALSE)
    /\ hashed = NotHashed
    /\ RestIdle

\* the payload of exportProjectData with extension "csv", for the rows at hand
writeCsvFile ==
    /\ ~fileText.written
    /\ fileText' = [written |-> TRUE, extension |-> "csv",
                    text |-> buildCsvFromRows(flatRows)]
    /\ UNCHANGED <<canvasVars, editorVars, flatRows, parsed, hashed, restVars>>

\* what importProjectDataFromFile parses from that file: format "csv"
readCsvFile ==
    /\ fileText.written
    /\ ~parsed.done
    /\ LET result == parseCsvText(fileText.text)
       IN  parsed' = [done |-> TRUE, error |-> FALSE,
                      rows |-> result.rows, headers |-> result.headers]
    /\ UNCHANGED <<canvasVars, editorVars, flatRows, fileText, hashed, restVars>>

NextCsv == writeCsvFile \/ readCsvFile

SpecCsv == InitCsv /\ [][NextCsv]_vars

\* the parsed rows are the exported rows: as many, in the same order, with
\* the same text in every column
RoundTrips ==
    /\ Len(parsed.rows) = Len(flatRows)
    /\ \A r \in 1..Len(flatRows) : \A c \in Elems(FLAT_EXPORT_COLUMNS) :
           /\ c \in DOMAIN parsed.rows[r]
           /\ parsed.rows[r][c] = flatRows[r][c]

\* a row whose cells are all empty or white space
IsBlankRow(row) == \A c \in DOMAIN row : trim(row[c]) = <<>>

\* C10 as stated: whatever the cells are, the rows parsed from the exported
\* CSV text are the exported rows.
C10_Original == parsed.done => RoundTrips

\* C10 amended: when every row has a cell with a character that is not
\* white space, the rows parsed from the exported CSV text are the exported
\* rows: as many, in the same order, with the same text in every column.
C10_RoundTripOfNonBlankRows ==
    (parsed.done /\ \A r \in 1..Len(flatRows) : ~IsBlankRow(flatRows[r]))
        => RoundTrips

\* two rows, neither of them blank, whose cells hold a quote, a comma, a
\* line break and an empty text, have been exported and read back
C10_Witness ==
    /\ parsed.done
    /\ Len(flatRows) = 2
    /\ \A r \in 1..2 : ~IsBlankRow(flatRows[r])
    /\ {flatRows[1][c] : c \in DOMAIN flatRows[1]} = {<<Quote>>, <<Comma>>, <<>>}
    /\ \E c \in DOMAIN flatRows[2] : flatRows[2][c] \in {<<LineFeed>>, <<CarriageReturn>>}
    /\ RoundTrips

----------------------------------------------------------------------------
(* Export to an XML file and import of that file. *)

\* the characters a cell is made of: a letter, the five characters that
\* escapeXmlText replaces, and the two line break characters
XmlCellChars ==
    {97, Ampersand, LessThan, GreaterThan, Quote, Apostrophe, LineFeed, CarriageReturn}

XmlFlatRows ==
    LET first == {FLAT_EXPORT_COLUMNS[k] : k \in 1..NumColumns}
    IN  {[c \in Elems(FLAT_EXPORT_COLUMNS) |-> IF c \in first THEN cells[c] ELSE <<>>] :
            cells \in [first -> SeqsUpTo(XmlCellChars, MaxCellLen)]}

InitXml ==
    /\ nodes = <<>>
    /\ edges = <<>>
    /\ flatRows \in SeqsUpTo(XmlFlatRows, MaxRows)
    /\ fileText = NoFile
    /\ parsed = NotParsed
    /\ EditorIdle(FALSE)
    /\ hashed = NotHashed
    /\ RestIdle

\* the payload of exportProjectData with extension "xml", for the rows at hand
writeXmlFile ==
    /\ ~fileText.written
    /\ fileText' = [written |-> TRUE, extension |-> "xml",
                    text |-> buildXmlFromRows(flatRows)]
    /\ UNCHANGED <<canvasVars, editorVars, flatRows, parsed, hashed, restVars>>

\* what importProjectDataFromFile parses from that file: format "xml"
readXmlFile ==
    /\ fileText.written
    /\ ~parsed.done
    /\ LET result == parseXmlText(fileText.text)
       IN  parsed' = [done |-> TRUE, error |-> result.error,
                      rows |-> result.rows, headers |-> result.headers]
    /\ UNCHANGED <<canvasVars, editorVars, flatRows, fileText, hashed, restVars>>

NextXml == writeXmlFile \/ readXmlFile

SpecXml == InitXml /\ [][NextXml]_vars

\* C11: whatever the cells are (the characters & < > " ' and line breaks
\* included), the rows parsed from the exported XML text are the exported
\* rows: as many, in the same order, with the same text in every column.
C11_XmlRoundTrip == parsed.done => (~parsed.error /\ RoundTrips)

----------------------------------------------------------------------------
(* hashToBase36 applied to a text. *)

\* code units that reach every byte of the 16-bit character code
TextChars == {0, 97, 128, 255, 256, 65535}

InitHash ==
    /\ nodes = <<>>
    /\ edges = <<>>
    /\ EditorIdle(FALSE)
    /\ NoFileTraffic
    /\ hashed \in [value : SeqsUpTo(TextChars, MaxTextLen), token : {<<>>}, done : {FALSE}]
    /\ RestIdle

\* the call hashToBase36(value)
hashText ==
    /\ ~hashed.done
    /\ hashed' = [hashed EXCEPT !.token = hashToBase36(hashed.value), !.done = TRUE]
    /\ UNCHANGED <<canvasVars, editorVars, fileVars, restVars>>

NextHash == hashText

SpecHash == InitHash /\ [][NextHash]_vars

RECURSIVE BitXor(_, _, _)
\* the exclusive or of the lowest n bits of a and b
BitXor(a, b, n) ==
    IF n = 0 THEN 0
    ELSE (IF a % 2 = b % 2 THEN 0 ELSE 1) + 2 * BitXor(a \div 2, b \div 2, n - 1)

\* w * 16777619 modulo 2^32, with 16777619 = 256 * 65536 + 403
TimesFnvPrime(w) ==
    [hi |-> (w.hi * 403 + w.lo * 256 + (w.lo * 403) \div 65536) % 65536,
     lo |-> (w.lo * 403) % 65536]

RECURSIVE Fnv1a(_, _)
\* 32-bit FNV-1a of the character codes of value, from the hash w
Fnv1a(w, value) ==
    IF value = <<>> THEN w
    ELSE Fnv1a(TimesFnvPrime([hi |-> w.hi, lo |-> BitXor(w.lo, Head(value), 16)]),
               Tail(value))

\* the digits 0-9 and A-Z
Base36Chars == (48..57) \cup (65..90)

RECURSIVE Base36Value(_, _)
\* the number that the base-36 digits of token add to w * 36^Len(token)
Base36Value(w, token) ==
    IF token = <<>> THEN w
    ELSE LET c == Head(token)
             digit == IF c <= 57 THEN c - 48 ELSE c - 55
             low == w.lo * 36 + digit
         IN  Base36Value([hi |-> w.hi * 36 + low \div 65536, lo |-> low % 65536],
                         Tail(token))

\* C20: the token of every text has exactly 7 characters from 0-9A-Z, and
\* read as a base-36 number it is the 32-bit FNV-1a hash of the text's
\* character codes (start 2166136261, exclusive or, times 16777619).
C20_TokenIsFnv1aInBase36 ==
    hashed.done =>
        /\ Len(hashed.token) = 7
        /\ \A k \in 1..Len(hashed.token) : hashed.token[k] \in Base36Chars
        /\ Base36Value([hi |-> 0, lo |-> 0], hashed.token)
               = Fnv1a([hi |-> 33052, lo |-> 40389], hashed.value)

\* the text "a" has the token 1R9WI7G, and the empty text 0ZTNTFP with its
\* leading zero
C20_Witness ==
    /\ hashed.done
    /\ \/ hashed.value = <<97>> /\ hashed.token = <<49, 82, 57, 87, 73, 55, 71>>
       \/ hashed.value = <<>> /\ hashed.token = <<48, 90, 84, 78, 84, 70, 80>>

----------------------------------------------------------------------------
(* Numbers and JSON in the cells of a flat row.  String(n) and Number(text) *)
(* are modelled for integers in decimal notation, JSON.stringify and        *)
(* JSON.parse for strings, booleans, null, integers, arrays and objects:    *)
(* the texts of the model hold no other number.                             *)

DecimalDigits == 48..57

RECURSIVE digitsOf(_)
digitsOf(n) == IF n < 10 THEN <<48 + n>> ELSE digitsOf(n \div 10) \o <<48 + (n % 10)>>

\* String(n) for an integer n
numberToString(n) == IF n < 0 THEN <<Hyphen>> \o digitsOf(-n) ELSE digitsOf(n)

RECURSIVE valueOfDigits(_)
valueOfDigits(digits) ==
    IF digits = <<>> THEN 0
    ELSE 10 * valueOfDigits(SubSeq(digits, 1, Len(digits) - 1))
             + (digits[Len(digits)] - 48)

\* number | null
Null == [isNull |-> TRUE, value |-> 0]
Finite(n) == [isNull |-> FALSE, value |-> n]

\* toNumeric: null for undefined and for the empty string (!value); else
\* Number(value), which strips white space, reads the empty text as 0, and
\* gives NaN, hence null, for a text that is no number
toNumeric(value) ==
    LET text == trim(value)
        signed == text # <<>> /\ text[1] \in {43, Hyphen}
        digits == IF signed THEN Tail(text) ELSE text
        magnitude == valueOfDigits(digits)
    IN  IF value = <<>> THEN Null
        ELSE IF text = <<>> THEN Finite(0)
        ELSE IF digits # <<>> /\ \A k \in 1..Len(digits) : digits[k] \in DecimalDigits
        THEN Finite(IF text[1] = Hyphen THEN -magnitude ELSE magnitude)
        ELSE Null

Backslash == 92
Colon == 58
LeftBracket == 91
RightBracket == 93
LeftBrace == 123
RightBrace == 125

\* a JSON value: every value is a record of the same shape, and kind says
\* which of its fields counts
JsonValue(kind, text, flag, number, items, keys) ==
    [kind |-> kind, text |-> text, flag |-> flag, number |-> number,
     items |-> items, keys |-> keys]
JsonUndefined == JsonValue("undefined", <<>>, FALSE, 0, <<>>, <<>>)
JsonNull == JsonValue("null", <<>>, FALSE, 0, <<>>, <<>>)
JsonString(text) == JsonValue("string", text, FALSE, 0, <<>>, <<>>)
JsonBoolean(flag) == JsonValue("boolean", <<>>, flag, 0, <<>>, <<>>)
JsonNumber(number) == JsonValue("number", <<>>, FALSE, number, <<>>, <<>>)
JsonArray(items) == JsonValue("array", <<>>, FALSE, 0, items, <<>>)
\* an object: its keys in insertion order, and the value of each in items
JsonObject(keys, items) == JsonValue("object", <<>>, FALSE, 0, items, keys)

\* value[key] for any value: undefined unless value is an object with the
\* key; a key written twice has its last value
jsonGet(value, key) ==
    LET places == {k \in 1..Len(value.keys) : value.keys[k] = key}
    IN  IF value.kind # "object" \/ places = {} THEN JsonUndefined
        ELSE value.items[CHOOSE k \in places : \A j \in places : j <= k]

HexDigits == <<48, 49, 50, 51, 52, 53, 54, 55, 56, 57, 97, 98, 99, 100, 101, 102>>

\* the escape that JSON.stringify writes for a character of a string
jsonEscapeChar(char) ==
    IF char = Quote THEN <<Backslash, Quote>>
    ELSE IF char = Backslash THEN <<Backslash, Backslash>>
    ELSE IF char = 8 THEN <<Backslash, 98>>
    ELSE IF char = 12 THEN <<Backslash, 102>>
    ELSE IF char = LineFeed THEN <<Backslash, 110>>
    ELSE IF char = CarriageReturn THEN <<Backslash, 114>>
    ELSE IF char = Tab THEN <<Backslash, 116>>
    ELSE IF char < Space
    THEN <<Backslash, 117, 48, 48, HexDigits[(char \div 16) + 1], HexDigits[(char % 16) + 1]>>
    ELSE <<char>>

jsonQuote(text) ==
    <<Quote>> \o concatBetween([k \in 1..Len(text) |-> jsonEscapeChar(text[k])],
                               1, Len(text)) \o <<Quote>>

TrueText == <<116, 114, 117, 101>>
FalseText == <<102, 97, 108, 115, 101>>
NullText == <<110, 117, 108, 108>>

RECURSIVE stringify(_)
\* JSON.stringify(value) without indentation; a member whose value is
\* undefined is left out
stringify(value) ==
    IF value.kind = "string" THEN jsonQuote(value.text)
    ELSE IF value.kind = "boolean" THEN (IF value.flag THEN TrueText ELSE FalseText)
    ELSE IF value.kind = "number" THEN numberToString(value.number)
    ELSE IF value.kind = "array"
    THEN <<LeftBracket>>
             \o join([k \in 1..Len(value.items) |-> stringify(value.items[k])], <<Comma>>)
             \o <<RightBracket>>
    ELSE IF value.kind = "object"
    THEN LET written == SelectSeq([k \in 1..Len(value.keys) |-> k],
                                  LAMBDA k : value.items[k].kind # "undefined")
         IN  <<LeftBrace>>
                 \o join([k \in 1..Len(written) |->
                             jsonQuote(value.keys[written[k]]) \o <<Colon>>
                                 \o stringify(value.items[written[k]])], <<Comma>>)
                 \o <<RightBrace>>
    ELSE NullText

JsonSpace == {Space, Tab, LineFeed, CarriageReturn}

\* the index of the first character at or after index that is no white
\* space, or Len(text) + 1
skipJsonSpace(text, index) ==
    CHOOSE k \in index..Len(text) + 1 :
        /\ \A j \in index..k - 1 : text[j] \in JsonSpace
        /\ k = Len(text) + 1 \/ text[k] \notin JsonSpace

\* the number of backslashes right before index, back to the index first
backslashesBefore(text, first, index) ==
    LET starts == {k \in first..index : \A j \in k..index - 1 : text[j] = Backslash}
    IN  index - (CHOOSE k \in starts : \A j \in starts : k <= j)

hexValue(char) ==
    IF char \in DecimalDigits THEN char - 48
    ELSE IF char \in 97..102 THEN char - 87
    ELSE IF char \in 65..70 THEN char - 55
    ELSE -1

\* what the escape sequence that starts with the backslash at index stands
\* for: its character and its length, or length 0 when it is no escape
jsonEscapeAt(body, index) ==
    LET letter == IF index < Len(body) THEN body[index + 1] ELSE 0
        hex(k) == IF index + k <= Len(body) THEN hexValue(body[index + k]) ELSE -1
    IN  IF letter \in {Quote, Backslash, Slash} THEN [char |-> letter, length |-> 2]
        ELSE IF letter = 98 THEN [char |-> 8, length |-> 2]
        ELSE IF letter = 102 THEN [char |-> 12, length |-> 2]
        ELSE IF letter = 110 THEN [char |-> LineFeed, length |-> 2]
        ELSE IF letter = 114 THEN [char |-> CarriageReturn, length |-> 2]
        ELSE IF letter = 116 THEN [char |-> Tab, length |-> 2]
        ELSE IF letter = 117 /\ \A k \in 2..5 : hex(k) >= 0
        THEN [char |-> ((hex(2) * 16 + hex(3)) * 16 + hex(4)) * 16 + hex(5), length |-> 6]
        ELSE [char |-> 0, length |-> 0]

JsonFailure == [ok |-> FALSE, value |-> JsonNull, next |-> 0]
JsonSuccess(value, next) == [ok |-> TRUE, value |-> value, next |-> next]

\* the index of the quote that closes the string literal opened at index,
\* or 0 when no quote closes it
closingQuote(text, index) ==
    LET closing == {k \in index + 1..Len(text) :
                       /\ text[k] = Quote
                       /\ backslashesBefore(text, index + 1, k) % 2 = 0}
    IN  IF closing = {} THEN 0 ELSE CHOOSE k \in closing : \A j \in closing : k <= j

\* the string that the characters between the quotes stand for; next is
\* the index after the closing quote
parseJsonStringBody(body, next) ==
    LET \* a backslash after an even number of backslashes starts an escape
        startsEscape(k) == body[k] = Backslash /\ backslashesBefore(body, 1, k) % 2 = 0
        inEscape(k) ==
            \E j \in (IF k > 5 THEN k - 5 ELSE 1)..k - 1 :
                startsEscape(j) /\ k < j + jsonEscapeAt(body, j).length
        isWellFormed ==
            \A k \in 1..Len(body) :
                /\ body[k] >= Space
                /\ startsEscape(k) => jsonEscapeAt(body, k).length > 0
        piece(k) == IF startsEscape(k) THEN <<jsonEscapeAt(body, k).char>>
                    ELSE IF inEscape(k) THEN <<>>
                    ELSE <<body[k]>>
    IN  IF ~isWellFormed THEN JsonFailure
        ELSE IF \A k \in 1..Len(body) : body[k] # Backslash
        THEN JsonSuccess(JsonString(body), next)
        ELSE JsonSuccess(JsonString(concatBetween([k \in 1..Len(body) |-> piece(k)],
                                                  1, Len(body))), next)

parseJsonStringUpTo(text, index, close) ==
    IF close = 0 THEN JsonFailure
    ELSE parseJsonStringBody(SubSeq(text, index + 1, close - 1), close + 1)

\* the string literal whose opening quote is at index
parseJsonString(text, index) ==
    parseJsonStringUpTo(text, index, closingQuote(text, index))

\* the integer literal that starts at index
parseJsonNumber(text, index) ==
    LET first == IF text[index] = Hyphen THEN index + 1 ELSE index
        ends == {k \in first..Len(text) + 1 :
                    /\ \A j \in first..k - 1 : text[j] \in DecimalDigits
                    /\ k = Len(text) + 1 \/ text[k] \notin DecimalDigits}
        end == CHOOSE k \in ends : TRUE
        magnitude == valueOfDigits(SubSeq(text, first, end - 1))
    IN  IF end = first \/ (end - first > 1 /\ text[first] = 48)
           \/ (end <= Len(text) /\ text[end] \in {46, 69, 101})
        THEN JsonFailure
        ELSE JsonSuccess(JsonNumber(IF first > index THEN -magnitude ELSE magnitude), end)

startsWithAt(text, index, word) ==
    /\ index + Len(word) - 1 <= Len(text)
    /\ SubSeq(text, index, index + Len(word) - 1) = word

RECURSIVE parseJsonValue(_, _)
RECURSIVE parseJsonItems(_, _, _)
RECURSIVE parseJsonMembers(_, _, _, _)

\* the value that starts at or after index, and the index after it
parseJsonValue(text, index) ==
    LET start == skipJsonSpace(text, index)
        inside == skipJsonSpace(text, start + 1)
    IN  IF start > Len(text) THEN JsonFailure
        ELSE IF text[start] = Quote THEN parseJsonString(text, start)
        ELSE IF text[start] = LeftBracket
        THEN IF inside <= Len(text) /\ text[inside] = RightBracket
             THEN JsonSuccess(JsonArray(<<>>), inside + 1)
             ELSE parseJsonItems(text, inside, <<>>)
        ELSE IF text[start] = LeftBrace
        THEN IF inside <= Len(text) /\ text[inside] = RightBrace
             THEN JsonSuccess(JsonObject(<<>>, <<>>), inside + 1)
             ELSE parseJsonMembers(text, inside, <<>>, <<>>)
        ELSE IF startsWithAt(text, start, TrueText)
        THEN JsonSuccess(JsonBoolean(TRUE), start + Len(TrueText))
        ELSE IF startsWithAt(text, start, FalseText)
        THEN JsonSuccess(JsonBoolean(FALSE), start + Len(FalseText))
        ELSE IF startsWithAt(text, start, NullText)
        THEN JsonSuccess(JsonNull, start + Len(NullText))
        ELSE IF text[start] = Hyphen \/ text[start] \in DecimalDigits
        THEN parseJsonNumber(text, start)
        ELSE JsonFailure

\* what follows an element of an array: a comma and the next elements, or
\* the closing bracket, at the index after
parseJsonItemsAfter(text, items, item, after) ==
    IF ~item.ok \/ after > Len(text) THEN JsonFailure
    ELSE IF text[after] = Comma
    THEN parseJsonItems(text, after + 1, Append(items, item.value))
    ELSE IF text[after] = RightBracket
    THEN JsonSuccess(JsonArray(Append(items, item.value)), after + 1)
    ELSE JsonFailure

parseJsonItemsWith(text, items, item) ==
    parseJsonItemsAfter(text, items, item, skipJsonSpace(text, item.next))

\* the elements of an array from index on, after the elements in items
parseJsonItems(text, index, items) ==
    parseJsonItemsWith(text, items, CHOOSE r \in {parseJsonValue(text, index)} : TRUE)

\* what follows a member of an object: a comma and the next members, or
\* the closing brace, at the index after
parseJsonMembersAfter(text, keys, items, key, item, after) ==
    IF ~item.ok \/ after > Len(text) THEN JsonFailure
    ELSE IF text[after] = Comma
    THEN parseJsonMembers(text, after + 1, Append(keys, key.value.text),
                          Append(items, item.value))
    ELSE IF text[after] = RightBrace
    THEN JsonSuccess(JsonObject(Append(keys, key.value.text),
                                Append(items, item.value)), after + 1)
    ELSE JsonFailure

parseJsonMembersWith(text, keys, items, key, item) ==
    parseJsonMembersAfter(text, keys, items, key, item, skipJsonSpace(text, item.next))

\* the value of a member after its key and a colon at the index colon
parseJsonMemberValue(text, keys, items, key, colon) ==
    parseJsonMembersWith(text, keys, items, key,
                         CHOOSE r \in {IF colon <= Len(text) /\ text[colon] = Colon
                                       THEN parseJsonValue(text, colon + 1)
                                       ELSE JsonFailure} : TRUE)

parseJsonMemberKey(text, keys, items, key) ==
    parseJsonMemberValue(text, keys, items, key,
                         IF key.ok THEN skipJsonSpace(text, key.next) ELSE Len(text) + 1)

parseJsonMembersAt(text, start, keys, items) ==
    parseJsonMemberKey(text, keys, items,
                       CHOOSE r \in {IF start <= Len(text) /\ text[start] = Quote
                                     THEN parseJsonString(text, start)
                                     ELSE JsonFailure} : TRUE)

\* the members of an object from index on, after the members in keys and
\* items
parseJsonMembers(text, index, keys, items) ==
    parseJsonMembersAt(text, skipJsonSpace(text, index), keys, items)

\* JSON.parse(value) when all of value is one JSON text, or null
parsedJsonText(value, result) ==
    IF result.ok /\ skipJsonSpace(value, result.next) = Len(value) + 1
    THEN result.value
    ELSE JsonNull

\* safeJsonParse: JSON.parse(value), or null when it throws
safeJsonParse(value) ==
    parsedJsonText(value, CHOOSE r \in {parseJsonValue(value, 1)} : TRUE)

----------------------------------------------------------------------------
(* createFlatExportRows, and the reconciliation of imported rows with the   *)
(* active project.  Of a node the model keeps id and position, of an edge   *)
(* id, source, target and data.edge_kind, data.is_reversed, of the admin    *)
(* options the tone list; the glossary is empty.                           *)

\* activeProject.id, which is also session.activeProjectId in the editor
ActiveProjectId == <<80, 82, 74, 45, 65>>

IdKey == <<105, 100>>
SourceKey == <<115, 111, 117, 114, 99, 101>>
TargetKey == <<116, 97, 114, 103, 101, 116>>
DataKey == <<100, 97, 116, 97>>
EdgeKindKey == <<101, 100, 103, 101, 95, 107, 105, 110, 100>>
IsReversedKey == <<105, 115, 95, 114, 101, 118, 101, 114, 115, 101, 100>>
SourceHandleKey == <<115, 111, 117, 114, 99, 101, 72, 97, 110, 100, 108, 101>>
TargetHandleKey == <<116, 97, 114, 103, 101, 116, 72, 97, 110, 100, 108, 101>>
ToneKey == <<116, 111, 110, 101>>
SequentialText == <<115, 101, 113, 117, 101, 110, 116, 105, 97, 108>>
ParallelText == <<112, 97, 114, 97, 108, 108, 101, 108>>
ParallelHandlePrefix == <<112, 45>>

edgeKindText(kind) == IF kind = "parallel" THEN ParallelText ELSE SequentialText

\* an edge of the editor as the value that JSON.stringify sees; is_reversed
\* is undefined for a parallel edge
edgeAsValue(edge) ==
    JsonObject(<<IdKey, SourceKey, TargetKey, DataKey>>,
               <<JsonString(edge.id), JsonString(edge.source), JsonString(edge.target),
                 JsonObject(<<EdgeKindKey, IsReversedKey>>,
                            <<JsonString(edgeKindText(edge.edge_kind)),
                              IF edge.edge_kind = "sequential"
                              THEN JsonBoolean(edge.is_reversed)
                              ELSE JsonUndefined>>)>>)

edgesAsValue(es) == JsonArray([k \in 1..Len(es) |-> edgeAsValue(es[k])])

adminOptionsAsValue(options) ==
    JsonObject(<<ToneKey>>,
               <<JsonArray([k \in 1..Len(options.tone) |-> JsonString(options.tone[k])])>>)

\* a handle id that starts with "p-" makes the edge parallel
inferEdgeKindFromHandles(sourceHandle, targetHandle) ==
    IF \/ (sourceHandle.kind = "string"
              /\ startsWithAt(sourceHandle.text, 1, ParallelHandlePrefix))
       \/ (targetHandle.kind = "string"
              /\ startsWithAt(targetHandle.text, 1, ParallelHandlePrefix))
    THEN "parallel"
    ELSE "sequential"

\* edge_kind and is_reversed of normalizeEdgeData
normalizeEdgeData(value, fallbackKind) ==
    LET kindValue == jsonGet(value, EdgeKindKey)
        reversedValue == jsonGet(value, IsReversedKey)
        edge_kind == IF kindValue.kind = "string" /\ kindValue.text = SequentialText
                     THEN "sequential"
                     ELSE IF kindValue.kind = "string" /\ kindValue.text = ParallelText
                     THEN "parallel"
                     ELSE fallbackKind
    IN  [edge_kind |-> edge_kind,
         is_reversed |-> edge_kind = "sequential" /\ reversedValue.kind = "boolean"
                             /\ reversedValue.flag]

\* the trimmed text of a string value, and "" for any other value
trimmedString(value) == IF value.kind = "string" THEN trim(value.text) ELSE <<>>

\* sanitizeEdgesForStorage of any value: the items of an array that have a
\* source and a target, with source and target trimmed, the id kept or
\* made from source and target, and the data normalized
sanitizeEdgesForStorage(value) ==
    LET items == IF value.kind = "array" THEN value.items ELSE <<>>
        hasEnds(k) == /\ trimmedString(jsonGet(items[k], SourceKey)) # <<>>
                      /\ trimmedString(jsonGet(items[k], TargetKey)) # <<>>
        kept == SelectSeq([k \in 1..Len(items) |-> k], hasEnds)
        edgeOf(item) ==
            LET source == trimmedString(jsonGet(item, SourceKey))
                target == trimmedString(jsonGet(item, TargetKey))
                idValue == jsonGet(item, IdKey)
                data == normalizeEdgeData(
                            jsonGet(item, DataKey),
                            inferEdgeKindFromHandles(jsonGet(item, SourceHandleKey),
                                                     jsonGet(item, TargetHandleKey)))
            IN  [id |-> IF trimmedString(idValue) # <<>> THEN idValue.text
                        ELSE edgeBaseId(source, target),
                 source |-> source, target |-> target,
                 edge_kind |-> data.edge_kind, is_reversed |-> data.is_reversed]
    IN  [k \in 1..Len(kept) |-> edgeOf(items[kept[k]])]

\* uniqueIdFor without the suffix: the base id, used or not
uniqueIdForAnyBase(baseId, usedIds) == baseId

\* the while loop of sanitizePersistedNodes and sanitizeEdges: baseId when
\* it is not in use, else the first of baseId-1, baseId-2, ... not in use
uniqueIdFor(baseId, used) ==
    LET candidate(counter) ==
            IF counter = 0 THEN baseId
            ELSE baseId \o <<Hyphen>> \o numberToString(counter)
        free == {c \in 0..Cardinality(used) : candidate(c) \notin used}
    IN  candidate(CHOOSE c \in free : \A d \in free : c <= d)

RECURSIVE sanitizeNodesFrom(_, _, _)
sanitizeNodesFrom(persistedNodes, usedNodeIds, done) ==
    IF persistedNodes = <<>> THEN done
    ELSE LET node == Head(persistedNodes)
             uniqueId == uniqueIdFor(trim(node.id), usedNodeIds)
         IN  sanitizeNodesFrom(Tail(persistedNodes), usedNodeIds \cup {uniqueId},
                               Append(done, [node EXCEPT !.id = uniqueId]))

\* sanitizePersistedNodes: ids trimmed and made pairwise distinct; the nodes
\* of the model have an id that is not empty, so createNodeId is not called
sanitizePersistedNodes(persistedNodes) == sanitizeNodesFrom(persistedNodes, {}, <<>>)

RECURSIVE sanitizeEdgesFrom(_, _, _, _)
sanitizeEdgesFrom(persistedEdges, validNodeIds, usedEdgeIds, done) ==
    IF persistedEdges = <<>> THEN done
    ELSE LET edge == Head(persistedEdges)
             rawId == trim(edge.id)
             baseId == IF rawId # <<>> THEN rawId
                       ELSE edgeBaseId(edge.source, edge.target)
             uniqueId == uniqueIdFor(baseId, usedEdgeIds)
         IN  IF \/ edge.source = <<>> \/ edge.target = <<>>
                \/ edge.source \notin validNodeIds \/ edge.target \notin validNodeIds
             THEN sanitizeEdgesFrom(Tail(persistedEdges), validNodeIds, usedEdgeIds, done)
             ELSE sanitizeEdgesFrom(Tail(persistedEdges), validNodeIds,
                                    usedEdgeIds \cup {uniqueId},
                                    Append(done, [edge EXCEPT !.id = uniqueId]))

\* sanitizeEdges without the test of source and target against the nodes
sanitizeEdgesOfAnyEnds(persistedEdges, ns) ==
    sanitizeEdgesFrom(persistedEdges,
                      IdsOf(ns) \cup {persistedEdges[k].source : k \in 1..Len(persistedEdges)}
                                \cup {persistedEdges[k].target : k \in 1..Len(persistedEdges)},
                      {}, <<>>)

\* sanitizeEdges: the edges whose source and target are ids of the nodes,
\* with ids trimmed and made pairwise distinct
sanitizeEdges(persistedEdges, ns) == sanitizeEdgesFrom(persistedEdges, IdsOf(ns), {}, <<>>)

\* value is an array with a string in it ? its strings : fallback
ensureArrayOfStrings(value, fallback) ==
    LET items == IF value.kind = "array" THEN value.items ELSE <<>>
        validItems == SelectSeq(items, LAMBDA item : item.kind = "string")
    IN  IF validItems # <<>> THEN [k \in 1..Len(validItems) |-> validItems[k].text]
        ELSE fallback

normalizeGlobalOptionConfig(value) ==
    [tone |-> ensureArrayOfStrings(jsonGet(value, ToneKey), DEFAULT_GLOBAL_OPTIONS.tone)]

\* Array.from(new Set(values.map(trim).filter(nonempty))): first occurrences
uniqueTrimmedStrings(values) ==
    LET trimmed == [k \in 1..Len(values) |-> trim(values[k])]
        isFirst(k) == trimmed[k] # <<>> /\ \A j \in 1..k - 1 : trimmed[j] # trimmed[k]
        kept == SelectSeq([k \in 1..Len(values) |-> k], isFirst)
    IN  [k \in 1..Len(kept) |-> trimmed[kept[k]]]

mergeAdminOptionConfigs(base, incoming) ==
    [tone |-> uniqueTrimmedStrings(base.tone \o incoming.tone)]

\* syncAdminOptionsWithNodes for nodes whose data adds no option: the
\* lists are normalized, and an empty list becomes the default list
syncAdminOptionsWithNodes(base) ==
    [tone |-> IF base.tone # <<>> THEN base.tone ELSE DEFAULT_GLOBAL_OPTIONS.tone]

FieldTypeKey == <<102, 105, 101, 108, 100, 95, 116, 121, 112, 101>>
TermKey == <<116, 101, 114, 109>>
IncludeKey == <<105, 110, 99, 108, 117, 100, 101>>
ListItemText == <<108, 105, 115, 116, 95, 105, 116, 101, 109>>
MenuTermText == <<109, 101, 110, 117, 95, 116, 101, 114, 109>>

\* the field types of a glossary entry, in CONTROLLED_LANGUAGE_FIELD_ORDER
CONTROLLED_LANGUAGE_FIELDS ==
    <<<<112, 114, 105, 109, 97, 114, 121, 95, 99, 116, 97>>,
      <<115, 101, 99, 111, 110, 100, 97, 114, 121, 95, 99, 116, 97>>,
      <<104, 101, 108, 112, 101, 114, 95, 116, 101, 120, 116>>,
      <<101, 114, 114, 111, 114, 95, 116, 101, 120, 116>>,
      MenuTermText>>

fieldOrder(fieldType) ==
    CHOOSE k \in 1..Len(CONTROLLED_LANGUAGE_FIELDS) : CONTROLLED_LANGUAGE_FIELDS[k] = fieldType

\* null is the empty text here: no field type is empty
normalizeControlledLanguageFieldType(value) ==
    IF value.kind # "string" THEN <<>>
    ELSE IF value.text = ListItemText THEN MenuTermText
    ELSE IF value.text \in Elems(CONTROLLED_LANGUAGE_FIELDS) THEN value.text
    ELSE <<>>

compareFieldOrder(a, b) == fieldOrder(a.field_type) - fieldOrder(b.field_type)

\* entries sorted by the order of their field type; two terms of one field
\* type are compared with localeCompare, which a glossary with at most one
\* term for each field type never asks for
sortControlledLanguageEntries(entries) == StableSort(entries, compareFieldOrder)

\* the items with a field type and a term, one entry for each pair of
\* them: byKey.set keeps the place of the first and the value of the last,
\* and include that is no boolean is the include of the entry before it
RECURSIVE glossaryFrom(_, _)
glossaryFrom(items, byKey) ==
    IF items = <<>> THEN byKey
    ELSE LET source == Head(items)
             fieldType == normalizeControlledLanguageFieldType(jsonGet(source, FieldTypeKey))
             term == trimmedString(jsonGet(source, TermKey))
             include == jsonGet(source, IncludeKey)
             places == {k \in 1..Len(byKey) :
                           byKey[k].field_type = fieldType /\ byKey[k].term = term}
             flag == IF include.kind = "boolean" THEN include.flag
                     ELSE IF places # {} THEN byKey[CHOOSE k \in places : TRUE].include
                     ELSE FALSE
             entry == [field_type |-> fieldType, term |-> term, include |-> flag]
         IN  IF fieldType = <<>> \/ term = <<>> THEN glossaryFrom(Tail(items), byKey)
             ELSE IF places # {}
             THEN glossaryFrom(Tail(items),
                               [k \in 1..Len(byKey) |->
                                   IF k \in places THEN entry ELSE byKey[k]])
             ELSE glossaryFrom(Tail(items), Append(byKey, entry))

sanitizeControlledLanguageGlossary(value) ==
    IF value.kind # "array" THEN <<>>
    ELSE sortControlledLanguageEntries(glossaryFrom(value.items, <<>>))

\* the glossary as the value that JSON.stringify is given
glossaryAsValue(glossary) ==
    JsonArray([k \in 1..Len(glossary) |->
                  JsonObject(<<FieldTypeKey, TermKey, IncludeKey>>,
                             <<JsonString(glossary[k].field_type),
                               JsonString(glossary[k].term),
                               JsonBoolean(glossary[k].include)>>)])

\* one row of createFlatExportRows: buildRow(node) with sequence, the
\* number of the node in ordering.sequenceByNodeId, and buildRow(null)
buildRow(hasNode, node, sequence, adminOptionsJson, controlledLanguageJson, edgesJson) ==
    (session_activeProjectId :> ActiveProjectId)
        @@ (project_id :> ActiveProjectId)
        @@ (node_id :> IF hasNode THEN node.id ELSE <<>>)
        @@ (node_order_id :> IF hasNode THEN numberToString(sequence) ELSE <<>>)
        @@ (sequence_index :> IF hasNode THEN numberToString(sequence) ELSE <<>>)
        @@ (position_x :> IF hasNode THEN numberToString(node.position.x) ELSE <<>>)
        @@ (position_y :> IF hasNode THEN numberToString(node.position.y) ELSE <<>>)
        @@ (project_admin_options_json :> adminOptionsJson)
        @@ (project_controlled_language_json :> controlledLanguageJson)
        @@ (project_edges_json :> edgesJson)

\* a placeholder for the node argument of buildRow(null)
NoNode == [id |-> <<>>, position |-> [x |-> 0, y |-> 0]]

\* flatRowsOf without the placeholder row
flatRowsOfNodesOnly(orderedNodes, ord, adminOptionsJson, controlledLanguageJson, edgesJson) ==
    [k \in 1..Len(orderedNodes) |->
        buildRow(TRUE, orderedNodes[k], ord.sequenceByNodeId[orderedNodes[k].id],
                 adminOptionsJson, controlledLanguageJson, edgesJson)]

\* orderedNodes.map(buildRow), or [buildRow(null)] when there is no node
flatRowsOf(orderedNodes, ord, adminOptionsJson, controlledLanguageJson, edgesJson) ==
    IF orderedNodes = <<>>
    THEN <<buildRow(FALSE, NoNode, 0, adminOptionsJson, controlledLanguageJson,
                    edgesJson)>>
    ELSE [k \in 1..Len(orderedNodes) |->
             buildRow(TRUE, orderedNodes[k],
                      ord.sequenceByNodeId[orderedNodes[k].id],
                      adminOptionsJson, controlledLanguageJson, edgesJson)]

\* ordering.orderedNodeIds.map(id => nodeById.get(id)).filter(Boolean)
orderedNodesOf(nodeById, orderedNodeIds) ==
    LET present == SelectSeq(orderedNodeIds, LAMBDA id : id \in DOMAIN nodeById)
    IN  [k \in 1..Len(present) |-> nodeById[present[k]]]

createFlatExportRows(ns, ord, options, glossary, es) ==
    flatRowsOf(orderedNodesOf(nodeByIdOf(ns), ord.orderedNodeIds), ord,
               stringify(adminOptionsAsValue(options)),
               stringify(glossaryAsValue(
                             sanitizeControlledLanguageGlossary(glossaryAsValue(glossary)))),
               stringify(edgesAsValue(sanitizeEdgesForStorage(edgesAsValue(es)))))

----------------------------------------------------------------------------
(* importProjectDataFromFile: the outcome of the import of a file. *)

\* detectTabularFormat(file.name, fileText), for the extension of the name
detectTabularFormat(extension, text) ==
    LET trimmed == trimStart(text)
    IN  IF extension = "csv" THEN "csv"
        ELSE IF extension = "xml" THEN "xml"
        ELSE IF trimmed # <<>> /\ trimmed[1] = LessThan THEN "xml"
        ELSE IF \E k \in 1..Len(trimmed) : trimmed[k] = Comma THEN "csv"
        ELSE "none"

\* toLowerCase that leaves every letter as it is
toLowerCaseUnchanged(text) == text

\* String.prototype.toLowerCase for the code units of the model: the
\* letters A to Z become a to z, and no other code unit of the model changes
toLowerCase(text) ==
    [k \in 1..Len(text) |-> IF text[k] >= 65 /\ text[k] <= 90 THEN text[k] + 32 ELSE text[k]]

endsWith(text, searchString) ==
    /\ Len(text) >= Len(searchString)
    /\ SubSeq(text, Len(text) - Len(searchString) + 1, Len(text)) = searchString

DotCsv == <<46, 99, 115, 118>>
DotXml == <<46, 120, 109, 108>>

\* the two tests of loweredFileName in detectTabularFormat
matchedExtension(fileName) ==
    IF endsWith(toLowerCase(fileName), DotCsv) THEN "csv"
    ELSE IF endsWith(toLowerCase(fileName), DotXml) THEN "xml"
    ELSE ""

\* detectTabularFormat(file.name, fileText)
detectTabularFormatOfName(fileName, text) ==
    detectTabularFormat(matchedExtension(fileName), text)

\* every key trimmed (trim removes the byte order mark as well), and an
\* empty key left out; the keys a parser returns stay distinct
normalizeFlatRowKeys(rawRow) ==
    [key \in {trim(k) : k \in DOMAIN rawRow} \ {<<>>} |->
        rawRow[CHOOSE k \in DOMAIN rawRow : trim(k) = key]]

\* toNumeric(row.node_order_id ?? row.sequence_index) ?? fallbackIndex + 1
sortWeight(row, fallbackIndex) ==
    LET orderValue == toNumeric(IF node_order_id \in DOMAIN row
                                THEN row[node_order_id]
                                ELSE cellOf(row, sequence_index))
    IN  IF orderValue.isNull THEN fallbackIndex + 1 ELSE orderValue.value

compareSortWeight(a, b) == sortWeight(a.row, a.index) - sortWeight(b.row, b.index)

\* the rows with a node id, sorted by their weight
sortedNodeRecords(projectRows) ==
    LET nodeRecords == SelectSeq(projectRows,
                                 LAMBDA row : trim(cellOf(row, node_id)) # <<>>)
    IN  StableSort([k \in 1..Len(nodeRecords) |->
                       [row |-> nodeRecords[k], index |-> k - 1]],
                   compareSortWeight)

\* the node of a sorted row: its trimmed id, and its position, which is
\* made from index when a coordinate is no number
importedNode(row, index) ==
    [id |-> trim(cellOf(row, node_id)),
     position |-> [x |-> IF toNumeric(cellOf(row, position_x)).isNull
                         THEN 120 + index * 220
                         ELSE toNumeric(cellOf(row, position_x)).value,
                   y |-> IF toNumeric(cellOf(row, position_y)).isNull THEN 120
                         ELSE toNumeric(cellOf(row, position_y)).value]]

nodesOfRecords(sorted) ==
    [k \in 1..Len(sorted) |-> importedNode(sorted[k].row, k - 1)]

\* importedNodes: id and position of the node of each sorted row
importedNodesOf(projectRows) == nodesOfRecords(sortedNodeRecords(projectRows))

UnsupportedFileMessage ==
    <<85, 110, 115, 117, 112, 112, 111, 114, 116, 101, 100, 32, 102, 105, 108,
    101, 46, 32, 80, 108, 101, 97, 115, 101, 32, 105, 109, 112, 111, 114, 116,
    32, 67, 83, 86, 32, 111, 114, 32, 88, 77, 76, 46>>
NoDataRowsMessage ==
    <<73, 109, 112, 111, 114, 116, 32, 102, 105, 108, 101, 32, 104, 97, 115,
    32, 110, 111, 32, 100, 97, 116, 97, 32, 114, 111, 119, 115, 46>>
InvalidXmlMessage ==
    <<73, 110, 118, 97, 108, 105, 100, 32, 88, 77, 76, 32, 102, 105, 108, 101,
    46>>
NoRowsMatchedPrefix ==
    <<78, 111, 32, 114, 111, 119, 115, 32, 109, 97, 116, 99, 104, 101, 100,
    32, 97, 99, 116, 105, 118, 101, 32, 112, 114, 111, 106, 101, 99, 116, 32>>
ImportedPrefix == <<73, 109, 112, 111, 114, 116, 101, 100, 32>>
ImportedInfix ==
    <<32, 110, 111, 100, 101, 40, 115, 41, 32, 102, 114, 111, 109, 32>>
ExportedPrefix == <<69, 120, 112, 111, 114, 116, 101, 100, 32>>
ExportedInfix == <<32, 114, 111, 119, 40, 115, 41, 32, 116, 111, 32>>
FullStop == <<46>>
CsvUpperCase == <<67, 83, 86>>
XmlUpperCase == <<88, 77, 76>>

Feedback(type, message) == [type |-> type, message |-> message]

\* the handler returns, or its catch block runs, before any state but the
\* feedback is set
NotImported(type, message) ==
    [feedback |-> Feedback(type, message), applies |-> FALSE,
     nodes |-> <<>>, edges |-> <<>>, adminOptions |-> DEFAULT_GLOBAL_OPTIONS,
     controlledLanguageGlossary |-> <<>>]

\* the rows of the active project, with normalized keys
\* projectRowsOf without the comparison with the active project
projectRowsOfAnyProject(rows) ==
    [k \in 1..Len(rows) |-> normalizeFlatRowKeys(rows[k])]

projectRowsOf(rows) ==
    SelectSeq([k \in 1..Len(rows) |-> normalizeFlatRowKeys(rows[k])],
              LAMBDA row : /\ project_id \in DOMAIN row
                           /\ trim(row[project_id]) = ActiveProjectId)

\* the end of the try block: the editor state made from the sanitized nodes
\* and from the JSON columns of the first row
importedProject(format, hydratedNodes, firstRow) ==
    [feedback |->
         Feedback("success",
                  ImportedPrefix \o numberToString(Len(hydratedNodes))
                      \o ImportedInfix
                      \o (IF format = "csv" THEN CsvUpperCase ELSE XmlUpperCase)
                      \o FullStop),
     applies |-> TRUE,
     nodes |-> hydratedNodes,
     edges |-> sanitizeEdges(
                   sanitizeEdgesForStorage(
                       safeJsonParse(cellOf(firstRow, project_edges_json))),
                   hydratedNodes),
     adminOptions |->
         syncAdminOptionsWithNodes(
             mergeAdminOptionConfigs(
                 normalizeGlobalOptionConfig(
                     safeJsonParse(cellOf(firstRow, project_admin_options_json))),
                 DEFAULT_GLOBAL_OPTIONS)),
     controlledLanguageGlossary |->
         sanitizeControlledLanguageGlossary(
             safeJsonParse(cellOf(firstRow, project_controlled_language_json)))]

\* the two returns after the parse: no rows, and no row of the project
importedRows(format, rows, projectRows) ==
    IF rows = <<>> THEN NotImported("info", NoDataRowsMessage)
    ELSE IF projectRows = <<>>
    THEN NotImported("error", NoRowsMatchedPrefix \o ActiveProjectId \o FullStop)
    ELSE importedProject(format, sanitizePersistedNodes(importedNodesOf(projectRows)),
                         projectRows[1])

\* importedTable without the throw of parseXmlText
importedTableOfAnyDocument(format, tabular) ==
    importedRows(format, tabular.rows, projectRowsOf(tabular.rows))

\* parseXmlText throws "Invalid XML file." and the catch block reports it
importedTable(format, tabular) ==
    IF format = "xml" /\ tabular.error THEN NotImported("error", InvalidXmlMessage)
    ELSE importedRows(format, tabular.rows, projectRowsOf(tabular.rows))

importedText(format, text) ==
    IF format = "none" THEN NotImported("error", UnsupportedFileMessage)
    ELSE importedTable(format,
                       CHOOSE r \in {IF format = "csv" THEN parseCsvText(text)
                                     ELSE parseXmlText(text)} : TRUE)

\* the body of importProjectDataFromFile after file.text(): the feedback it
\* sets, and, when it gets to them, the nodes, edges and admin options
importOutcome(file) ==
    importedText(detectTabularFormat(file.extension, file.text), file.text)

----------------------------------------------------------------------------
(* The files that are imported from outside the editor. *)

\* a CSV file with two node rows of project PRJ-X
OtherProjectCsv ==
    [extension |-> "csv",
     text |->
        <<112, 114, 111, 106, 101, 99, 116, 95, 105, 100, 44, 110, 111, 100,
        101, 95, 105, 100, 10, 80, 82, 74, 45, 88, 44, 97, 10, 80, 82, 74, 45,
        88, 44, 98>>]

\* an XML file with one node row of project PRJ-X
OtherProjectXml ==
    [extension |-> "xml",
     text |->
        <<60, 102, 108, 111, 119, 99, 111, 112, 121, 69, 120, 112, 111, 114,
        116, 62, 60, 114, 111, 119, 62, 60, 112, 114, 111, 106, 101, 99, 116,
        95, 105, 100, 62, 80, 82, 74, 45, 88, 60, 47, 112, 114, 111, 106, 101,
        99, 116, 95, 105, 100, 62, 60, 110, 111, 100, 101, 95, 105, 100, 62,
        97, 60, 47, 110, 111, 100, 101, 95, 105, 100, 62, 60, 47, 114, 111,
        119, 62, 60, 47, 102, 108, 111, 119, 99, 111, 112, 121, 69, 120, 112,
        111, 114, 116, 62>>]

\* an XML file in which the element node_id is not closed
BrokenXml ==
    [extension |-> "xml",
     text |->
        <<60, 102, 108, 111, 119, 99, 111, 112, 121, 69, 120, 112, 111, 114,
        116, 62, 60, 114, 111, 119, 62, 60, 112, 114, 111, 106, 101, 99, 116,
        95, 105, 100, 62, 80, 82, 74, 45, 65, 60, 47, 112, 114, 111, 106, 101,
        99, 116, 95, 105, 100, 62, 60, 110, 111, 100, 101, 95, 105, 100, 62,
        97, 60, 47, 114, 111, 119, 62, 60, 47, 102, 108, 111, 119, 99, 111,
        112, 121, 69, 120, 112, 111, 114, 116, 62>>]

\* a text that starts with < and ends before its elements are closed, in a
\* file whose name ends with neither .csv nor .xml
BrokenXmlByContent ==
    [extension |-> "txt",
     text |->
        <<32, 60, 102, 108, 111, 119, 99, 111, 112, 121, 69, 120, 112, 111,
        114, 116, 62, 60, 114, 111, 119, 62, 60, 112, 114, 111, 106, 101, 99,
        116, 95, 105, 100, 62, 80, 82, 74, 45, 65, 60, 47, 112, 114, 111, 106,
        101, 99, 116, 95, 105, 100, 62>>]

\* a well formed XML file without row elements
EmptyXml ==
    [extension |-> "xml",
     text |->
        <<60, 102, 108, 111, 119, 99, 111, 112, 121, 69, 120, 112, 111, 114,
        116, 32, 102, 111, 114, 109, 97, 116, 86, 101, 114, 115, 105, 111,
        110, 61, 34, 49, 34, 62, 60, 47, 102, 108, 111, 119, 99, 111, 112,
        121, 69, 120, 112, 111, 114, 116, 62>>]

\* a CSV file with a header line and no data row
HeaderOnlyCsv ==
    [extension |-> "csv",
     text |->
        <<112, 114, 111, 106, 101, 99, 116, 95, 105, 100, 44, 110, 111, 100,
        101, 95, 105, 100>>]

\* a text without < and without comma, in a file of another extension
PlainText ==
    [extension |-> "txt",
     text |->
        <<104, 101, 108, 108, 111>>]

\* a CSV file of the active project with the node id a twice, a row of
\* another project, and an edge list with the edge id x twice, an edge to a
\* node that is not in the file, and an edge without id between padded ids
DuplicateIdsCsv ==
    [extension |-> "csv",
     text |->
        <<112, 114, 111, 106, 101, 99, 116, 95, 105, 100, 44, 110, 111, 100,
        101, 95, 105, 100, 44, 112, 111, 115, 105, 116, 105, 111, 110, 95,
        120, 44, 112, 111, 115, 105, 116, 105, 111, 110, 95, 121, 44, 112,
        114, 111, 106, 101, 99, 116, 95, 101, 100, 103, 101, 115, 95, 106,
        115, 111, 110, 10, 80, 82, 74, 45, 65, 44, 97, 44, 48, 44, 48, 44, 34,
        91, 123, 34, 34, 105, 100, 34, 34, 58, 34, 34, 120, 34, 34, 44, 34,
        34, 115, 111, 117, 114, 99, 101, 34, 34, 58, 34, 34, 97, 34, 34, 44,
        34, 34, 116, 97, 114, 103, 101, 116, 34, 34, 58, 34, 34, 98, 34, 34,
        125, 44, 123, 34, 34, 105, 100, 34, 34, 58, 34, 34, 120, 34, 34, 44,
        34, 34, 115, 111, 117, 114, 99, 101, 34, 34, 58, 34, 34, 98, 34, 34,
        44, 34, 34, 116, 97, 114, 103, 101, 116, 34, 34, 58, 34, 34, 97, 34,
        34, 44, 34, 34, 100, 97, 116, 97, 34, 34, 58, 123, 34, 34, 101, 100,
        103, 101, 95, 107, 105, 110, 100, 34, 34, 58, 34, 34, 112, 97, 114,
        97, 108, 108, 101, 108, 34, 34, 125, 125, 44, 123, 34, 34, 115, 111,
        117, 114, 99, 101, 34, 34, 58, 34, 34, 97, 34, 34, 44, 34, 34, 116,
        97, 114, 103, 101, 116, 34, 34, 58, 34, 34, 122, 122, 34, 34, 125, 44,
        123, 34, 34, 105, 100, 34, 34, 58, 34, 34, 32, 34, 34, 44, 34, 34,
        115, 111, 117, 114, 99, 101, 34, 34, 58, 34, 34, 32, 97, 32, 34, 34,
        44, 34, 34, 116, 97, 114, 103, 101, 116, 34, 34, 58, 34, 34, 97, 45,
        49, 34, 34, 44, 34, 34, 115, 111, 117, 114, 99, 101, 72, 97, 110, 100,
        108, 101, 34, 34, 58, 34, 34, 112, 45, 115, 114, 99, 34, 34, 125, 93,
        34, 10, 80, 82, 74, 45, 65, 44, 32, 97, 32, 44, 49, 44, 48, 44, 10,
        80, 82, 74, 45, 65, 44, 98, 44, 44, 44, 10, 80, 82, 74, 45, 88, 44,
        99, 44, 53, 44, 53, 44>>]

\* a CSV file of the active project in which node_order_id is empty and
\* sequence_index puts the second row first
SequenceOnlyCsv ==
    [extension |-> "csv",
     text |->
        <<112, 114, 111, 106, 101, 99, 116, 95, 105, 100, 44, 110, 111, 100,
        101, 95, 105, 100, 44, 110, 111, 100, 101, 95, 111, 114, 100, 101,
        114, 95, 105, 100, 44, 115, 101, 113, 117, 101, 110, 99, 101, 95, 105,
        110, 100, 101, 120, 44, 112, 111, 115, 105, 116, 105, 111, 110, 95,
        120, 44, 112, 111, 115, 105, 116, 105, 111, 110, 95, 121, 10, 80, 82,
        74, 45, 65, 44, 97, 44, 44, 50, 44, 48, 44, 48, 10, 80, 82, 74, 45,
        65, 44, 98, 44, 44, 49, 44, 49, 44, 48>>]

\* a CSV file of the active project in which node_order_id puts the second
\* row first, sequence_index says otherwise, and the third row has a
\* node_order_id that is no number
OrderedCsv ==
    [extension |-> "csv",
     text |->
        <<112, 114, 111, 106, 101, 99, 116, 95, 105, 100, 44, 110, 111, 100,
        101, 95, 105, 100, 44, 110, 111, 100, 101, 95, 111, 114, 100, 101,
        114, 95, 105, 100, 44, 115, 101, 113, 117, 101, 110, 99, 101, 95, 105,
        110, 100, 101, 120, 44, 112, 111, 115, 105, 116, 105, 111, 110, 95,
        120, 44, 112, 111, 115, 105, 116, 105, 111, 110, 95, 121, 10, 80, 82,
        74, 45, 65, 44, 97, 44, 50, 44, 49, 44, 48, 44, 48, 10, 80, 82, 74,
        45, 65, 44, 98, 44, 49, 44, 50, 44, 49, 44, 48, 10, 80, 82, 74, 45,
        65, 44, 99, 44, 120, 44, 48, 44, 49, 44, 49>>]

\* a CSV file of the active project without a node_order_id column, in
\* which sequence_index puts the second row first
NoOrderColumnCsv ==
    [extension |-> "csv",
     text |->
        <<112, 114, 111, 106, 101, 99, 116, 95, 105, 100, 44, 110, 111, 100,
        101, 95, 105, 100, 44, 115, 101, 113, 117, 101, 110, 99, 101, 95, 105,
        110, 100, 101, 120, 10, 80, 82, 74, 45, 65, 44, 97, 44, 50, 10, 80,
        82, 74, 45, 65, 44, 98, 44, 49>>]

\* a CSV file of the active project with a carriage return in a node id and
\* an edge from that node
CarriageReturnIdCsv ==
    [extension |-> "csv",
     text |->
        <<112, 114, 111, 106, 101, 99, 116, 95, 105, 100, 44, 110, 111, 100,
        101, 95, 105, 100, 44, 112, 111, 115, 105, 116, 105, 111, 110, 95,
        120, 44, 112, 111, 115, 105, 116, 105, 111, 110, 95, 121, 44, 112,
        114, 111, 106, 101, 99, 116, 95, 101, 100, 103, 101, 115, 95, 106,
        115, 111, 110, 10, 80, 82, 74, 45, 65, 44, 34, 97, 13, 98, 34, 44, 48,
        44, 48, 44, 34, 91, 123, 34, 34, 105, 100, 34, 34, 58, 34, 34, 101,
        49, 34, 34, 44, 34, 34, 115, 111, 117, 114, 99, 101, 34, 34, 58, 34,
        34, 97, 92, 114, 98, 34, 34, 44, 34, 34, 116, 97, 114, 103, 101, 116,
        34, 34, 58, 34, 34, 99, 34, 34, 44, 34, 34, 100, 97, 116, 97, 34, 34,
        58, 123, 34, 34, 101, 100, 103, 101, 95, 107, 105, 110, 100, 34, 34,
        58, 34, 34, 115, 101, 113, 117, 101, 110, 116, 105, 97, 108, 34, 34,
        44, 34, 34, 105, 115, 95, 114, 101, 118, 101, 114, 115, 101, 100, 34,
        34, 58, 102, 97, 108, 115, 101, 125, 125, 93, 34, 10, 80, 82, 74, 45,
        65, 44, 99, 44, 49, 44, 48, 44>>]

ImportFiles ==
    {OtherProjectCsv, OtherProjectXml, BrokenXml, BrokenXmlByContent,
     EmptyXml, HeaderOnlyCsv, PlainText, DuplicateIdsCsv,
     SequenceOnlyCsv, OrderedCsv, NoOrderColumnCsv, CarriageReturnIdCsv}

----------------------------------------------------------------------------
(* The editor of the project PRJ-A: its canvas is loaded from the store,   *)
(* edited, exported, imported and undone.                                   *)

OneTermGlossary ==
    <<[field_type |-> MenuTermText, term |-> <<116>>, include |-> TRUE]>>

\* project.canvas of a new project (createEmptyCanvas)
EmptyProject ==
    [nodes |-> <<>>, edges |-> <<>>,
     adminOptions |-> adminOptionsAsValue(DEFAULT_GLOBAL_OPTIONS),
     controlledLanguageGlossary |-> JsonArray(<<>>)]

\* project.canvas as an older version or another writer of the store left
\* it: two edges share the id e1 and one edge ends at a node that is gone
StoredProject ==
    [nodes |-> <<[id |-> <<97>>, position |-> [x |-> 0, y |-> 0]],
                 [id |-> <<98>>, position |-> [x |-> 1, y |-> 0]]>>,
     edges |-> <<[id |-> <<101, 49>>, source |-> <<97>>, target |-> <<98>>,
                  edge_kind |-> "sequential", is_reversed |-> FALSE],
                 [id |-> <<101, 49>>, source |-> <<98>>, target |-> <<97>>,
                  edge_kind |-> "parallel", is_reversed |-> FALSE],
                 [id |-> <<101, 50>>, source |-> <<97>>, target |-> UnknownId,
                  edge_kind |-> "sequential", is_reversed |-> FALSE]>>,
     adminOptions |-> adminOptionsAsValue(DEFAULT_GLOBAL_OPTIONS),
     controlledLanguageGlossary |-> glossaryAsValue(OneTermGlossary)]

StoredProjects == {EmptyProject, StoredProject}

\* the canvas that persistCurrentProjectState writes to the store
persistedCanvas ==
    [nodes |-> nodes, edges |-> edges,
     adminOptions |-> adminOptionsAsValue(adminOptions),
     controlledLanguageGlossary |->
         glossaryAsValue(sanitizeControlledLanguageGlossary(
                             glossaryAsValue(controlledLanguageGlossary)))]

\* the editor state that loadProjectIntoEditor sets from a canvas
hydratedCanvas(canvas) ==
    LET hydratedNodes == sanitizePersistedNodes(canvas.nodes)
    IN  [nodes |-> hydratedNodes,
         edges |-> sanitizeEdges(canvas.edges, hydratedNodes),
         adminOptions |-> normalizeGlobalOptionConfig(canvas.adminOptions),
         controlledLanguageGlossary |->
             sanitizeControlledLanguageGlossary(canvas.controlledLanguageGlossary)]

\* the editor right after a project of the store is opened
InitEditor ==
    /\ \E project \in StoredProjects :
           LET hydrated == hydratedCanvas(project)
           IN  /\ nodes = hydrated.nodes
               /\ edges = hydrated.edges
               /\ adminOptions = hydrated.adminOptions
               /\ controlledLanguageGlossary = hydrated.controlledLanguageGlossary
    /\ undoStack = <<>>
    /\ undoCaptureTimeoutRef = NoTimeout
    /\ transferFeedback = NoFeedback
    /\ NoFileTraffic
    /\ hashed = NotHashed
    /\ RestIdle

\* back to the dashboard and into the project again: the canvas of the
\* store is loaded and the undo stack is emptied; a timer that waits keeps
\* waiting
loadProjectIntoEditor(canvas) ==
    LET hydrated == hydratedCanvas(canvas)
    IN  /\ nodes' = hydrated.nodes
        /\ edges' = hydrated.edges
        /\ adminOptions' = hydrated.adminOptions
        /\ controlledLanguageGlossary' = hydrated.controlledLanguageGlossary
        /\ undoStack' = <<>>
        /\ UNCHANGED <<undoCaptureTimeoutRef, transferFeedback, fileVars, hashed, restVars>>

\* the callback of the timer that queueUndoSnapshot starts
undoCaptureTimeout ==
    /\ undoCaptureTimeoutRef.pending
    /\ undoStack' = LET pushed == Append(undoStack, undoCaptureTimeoutRef.snapshot)
                    IN  IF Len(pushed) <= 3 THEN pushed
                        ELSE SubSeq(pushed, Len(pushed) - 2, Len(pushed))
    /\ undoCaptureTimeoutRef' = NoTimeout
    /\ UNCHANGED <<canvasVars, adminOptions, controlledLanguageGlossary,
                   transferFeedback, fileVars, hashed, restVars>>

\* the timer is cleared, and the last snapshot, when there is one, is put
\* back and taken off the stack
handleUndo ==
    /\ undoCaptureTimeoutRef' = NoTimeout
    /\ IF undoStack = <<>>
       THEN UNCHANGED <<canvasVars, adminOptions, controlledLanguageGlossary, undoStack>>
       ELSE LET previousSnapshot == undoStack[Len(undoStack)]
            IN  /\ nodes' = previousSnapshot.nodes
                /\ edges' = previousSnapshot.edges
                /\ adminOptions' = previousSnapshot.adminOptions
                /\ controlledLanguageGlossary' =
                       previousSnapshot.controlledLanguageGlossary
                /\ undoStack' = SubSeq(undoStack, 1, Len(undoStack) - 1)
    /\ UNCHANGED <<transferFeedback, fileVars, hashed, restVars>>

XyEdgePrefix == <<120, 121, 45, 101, 100, 103, 101, 95, 95>>
SEQUENTIAL_SOURCE_HANDLE_ID == <<115, 45, 115, 114, 99>>
SEQUENTIAL_TARGET_HANDLE_ID == <<115, 45, 116, 103, 116>>
PARALLEL_SOURCE_HANDLE_ID == <<112, 45, 115, 114, 99>>
PARALLEL_TARGET_HANDLE_ID == <<112, 45, 116, 103, 116>>

\* the handles that an edge of a kind is drawn between
sourceHandleOf(kind) ==
    IF kind = "parallel" THEN PARALLEL_SOURCE_HANDLE_ID ELSE SEQUENTIAL_SOURCE_HANDLE_ID
targetHandleOf(kind) ==
    IF kind = "parallel" THEN PARALLEL_TARGET_HANDLE_ID ELSE SEQUENTIAL_TARGET_HANDLE_ID

\* the id that React Flow gives a reconnected edge
getEdgeId(source, sourceHandle, target, targetHandle) ==
    XyEdgePrefix \o source \o sourceHandle \o <<Hyphen>> \o target \o targetHandle

\* reconnectEdge: the edge oldEdge leaves the array and an edge with the
\* data of oldEdge and the new source and target is added at the end; an
\* edge that is not in the array changes nothing
reconnectEdge(oldEdge, source, target, es) ==
    LET rest == SelectSeq(es, LAMBDA edge : edge.id # oldEdge.id)
        edge == [oldEdge EXCEPT !.id = getEdgeId(source, sourceHandleOf(oldEdge.edge_kind),
                                                 target, targetHandleOf(oldEdge.edge_kind)),
                                !.source = source, !.target = target]
    IN  IF \A k \in 1..Len(es) : es[k].id # oldEdge.id THEN es
        ELSE Append(rest, edge)

\* an end of edge i is dropped on a handle of a node
onReconnect(i, source, target) ==
    /\ i \in 1..Len(edges)
    /\ source \in IdsOf(nodes)
    /\ target \in IdsOf(nodes)
    /\ queueUndoSnapshot
    /\ edges' = reconnectEdge(edges[i], source, target, edges)
    /\ UNCHANGED nodes
    /\ othersUnchanged

\* Delete with an edge selected, or else with a node selected; the empty
\* text is null
handleDeleteSelection(selectedEdgeId, selectedNodeId) ==
    IF selectedEdgeId # <<>>
    THEN /\ queueUndoSnapshot
         /\ edges' = SelectSeq(edges, LAMBDA edge : edge.id # selectedEdgeId)
         /\ UNCHANGED nodes
         /\ othersUnchanged
    ELSE /\ selectedNodeId # <<>>
         /\ queueUndoSnapshot
         /\ nodes' = SelectSeq(nodes, LAMBDA node : node.id # selectedNodeId)
         /\ edges' = SelectSeq(edges, LAMBDA edge : /\ edge.source # selectedNodeId
                                                     /\ edge.target # selectedNodeId)
         /\ othersUnchanged

\* buildCsvFromRows or buildXmlFromRows, and the number of rows
exportedTable(extension, rows) ==
    [size |-> Len(rows),
     text |-> IF extension = "csv" THEN buildCsvFromRows(rows)
              ELSE buildXmlFromRows(rows)]

\* the file that exportProjectData downloads
exportedFile(extension) ==
    exportedTable(extension,
                  createFlatExportRows(nodes, ordering, adminOptions,
                                       controlledLanguageGlossary, edges))

\* the message of exportProjectData
exportedFeedback(extension, size) ==
    Feedback("success",
             ExportedPrefix \o numberToString(size) \o ExportedInfix
                 \o (IF extension = "csv" THEN CsvUpperCase ELSE XmlUpperCase)
                 \o FullStop)

downloadOf(extension, file) ==
    /\ fileText' = [written |-> TRUE, extension |-> extension, text |-> file.text]
    /\ transferFeedback' = exportedFeedback(extension, file.size)

exportProjectData(extension) ==
    /\ downloadOf(extension, exportedFile(extension))
    /\ UNCHANGED <<canvasVars, adminOptions, controlledLanguageGlossary,
                   undoStack, undoCaptureTimeoutRef, flatRows, parsed, hashed, restVars>>

\* importOutcome of the files from outside, which do not change
ImportOutcomes == [file \in ImportFiles |-> importOutcome(file)]

\* the editor after the import of a file, from file.text() to the end of
\* the handler: a file that is not imported changes the feedback only
editorAfter(outcome) ==
    IF outcome.applies
    THEN [transferFeedback |-> outcome.feedback,
          undoCaptureTimeoutRef |-> queuedUndoSnapshot,
          adminOptions |-> outcome.adminOptions,
          controlledLanguageGlossary |-> outcome.controlledLanguageGlossary,
          nodes |-> outcome.nodes,
          edges |-> outcome.edges,
          undoStack |-> undoStack]
    ELSE [transferFeedback |-> outcome.feedback,
          undoCaptureTimeoutRef |-> undoCaptureTimeoutRef,
          adminOptions |-> adminOptions,
          controlledLanguageGlossary |-> controlledLanguageGlossary,
          nodes |-> nodes,
          edges |-> edges,
          undoStack |-> undoStack]

importedEditor(file) ==
    editorAfter(IF file \in ImportFiles THEN ImportOutcomes[file]
                ELSE importOutcome(file))

editorBecomes(imported) ==
    /\ transferFeedback' = imported.transferFeedback
    /\ undoCaptureTimeoutRef' = imported.undoCaptureTimeoutRef
    /\ adminOptions' = imported.adminOptions
    /\ controlledLanguageGlossary' = imported.controlledLanguageGlossary
    /\ nodes' = imported.nodes
    /\ edges' = imported.edges
    /\ undoStack' = imported.undoStack

importProjectDataFromFile(file) ==
    /\ editorBecomes(CHOOSE r \in {importedEditor(file)} : TRUE)
    /\ UNCHANGED <<fileVars, hashed, restVars>>

\* the file of the last download
downloadedFile == [extension |-> fileText.extension, text |-> fileText.text]

\* what the user does in the editor: the node that a double click adds,
\* the ends of a connection, the edge that is reconnected and its new ends,
\* the selection, and the files that are picked
NewNodeIds == {<<99>>}
NewNodePositions == {[x |-> 0, y |-> 1]}
ConnectSources == {<<97>>}
ConnectTargets == {<<97>>, <<99>>}
ConnectKinds == {"sequential"}
ReconnectedEdges == {1}
ReconnectSources == {<<99>>}
ReconnectTargets == {<<97>>}
Selections == {<<>>} \cup IdsOf(nodes) \cup IdsOf(edges)
EditorFiles ==
    {OtherProjectCsv, OtherProjectXml, BrokenXml, BrokenXmlByContent, DuplicateIdsCsv}

\* an edit is followed while the undo stack has fewer snapshots than this
MaxUndoStack == 1
UndoRoom == Len(undoStack) < MaxUndoStack

NextEditor ==
    \/ loadProjectIntoEditor(persistedCanvas)
    \/ \E id \in NewNodeIds, p \in NewNodePositions : UndoRoom /\ addNodeAtEvent(id, p)
    \/ \E s \in ConnectSources, t \in ConnectTargets, k \in ConnectKinds :
           UndoRoom /\ onConnect(s, t, k)
    \/ \E i \in ReconnectedEdges, s \in ReconnectSources, t \in ReconnectTargets :
           UndoRoom /\ onReconnect(i, s, t)
    \/ \E e \in Selections, n \in Selections : UndoRoom /\ handleDeleteSelection(e, n)
    \/ undoCaptureTimeout
    \/ handleUndo
    \/ \E file \in EditorFiles :
           /\ UndoRoom \/ ~ImportOutcomes[file].applies
           /\ importProjectDataFromFile(file)

SpecEditor == InitEditor /\ [][NextEditor]_vars

\* files go out of the editor and come in: the project is exported, and a
\* file from outside or the last download is imported
PickedFiles == ImportFiles \cup (IF fileText.written THEN {downloadedFile} ELSE {})

NextTransfer ==
    \/ \E extension \in {"csv", "xml"} : exportProjectData(extension)
    \/ \E file \in PickedFiles : importProjectDataFromFile(file)

SpecTransfer == InitEditor /\ [][NextTransfer]_vars

----------------------------------------------------------------------------
(* Claims about computeFlowOrdering, checked in every state of Spec. *)

\* s lists every id of the node array exactly once and nothing else
ListsEveryNodeOnce(s) ==
    /\ Len(s) = Len(nodes)
    /\ Elems(s) = IdsOf(nodes)
    /\ \A i, j \in 1..Len(s) : s[i] = s[j] => i = j

\* the sequential edges between known nodes, as pairs, read from the state
SequentialPairs ==
    {<<edges[k].source, edges[k].target>> : k \in
        {i \in 1..Len(edges) :
            /\ edges[i].edge_kind = "sequential"
            /\ edges[i].source \in IdsOf(nodes)
            /\ edges[i].target \in IdsOf(nodes)}}

\* the parallel edges between known nodes, as pairs, in both directions
ParallelPairs ==
    UNION {{<<edges[k].source, edges[k].target>>, <<edges[k].target, edges[k].source>>} :
        k \in {i \in 1..Len(edges) :
            /\ edges[i].edge_kind = "parallel"
            /\ edges[i].source \in IdsOf(nodes)
            /\ edges[i].target \in IdsOf(nodes)}}

RECURSIVE ReachIn(_, _, _)
\* the ids reachable from the set S along R in at most n further steps
ReachIn(R, S, n) ==
    IF n = 0 THEN S
    ELSE ReachIn(R, S \cup {p[2] : p \in {q \in R : q[1] \in S}}, n - 1)

\* the ids reachable from id along R in one or more steps
ReachableFrom(R, id) == ReachIn(R, {p[2] : p \in {q \in R : q[1] = id}}, Len(nodes))

HasSequentialCycle == \E id \in IdsOf(nodes) : id \in ReachableFrom(SequentialPairs, id)

\* the 1-based place of id in the list s
PlaceIn(s, id) == CHOOSE k \in 1..Len(s) : s[k] = id

\* C1: orderedNodeIds and sequentialOrderedNodeIds each contain every node
\* id exactly once and nothing else, whatever the edges are.
C1_EveryNodeOnce ==
    LET o == ordering
    IN  /\ ListsEveryNodeOnce(o.orderedNodeIds)
        /\ ListsEveryNodeOnce(o.sequentialOrderedNodeIds)

\* three nodes, a sequential cycle, and an edge to an id that no node has
C1_Witness ==
    /\ Len(nodes) = 3
    /\ HasSequentialCycle
    /\ \E k \in 1..Len(edges) : edges[k].target = UnknownId
    /\ ListsEveryNodeOnce(ordering.sequentialOrderedNodeIds)

\* C2: hasCycle is true exactly when the sequential edges between known
\* nodes contain a directed cycle (a self-loop included); parallel edges
\* play no part.
C2_HasCycleIffCycle == ordering.hasCycle <=> HasSequentialCycle

\* a sequential self-loop is reported as a cycle, next to a parallel edge
C2_Witness ==
    /\ \E k \in 1..Len(edges) :
           edges[k].edge_kind = "sequential" /\ edges[k].source = edges[k].target
               /\ edges[k].source \in IdsOf(nodes)
    /\ \E k \in 1..Len(edges) : edges[k].edge_kind = "parallel"
    /\ ordering.hasCycle

\* every sequential edge between known nodes goes forward in the list s
EdgesGoForwardIn(s) ==
    \A p \in SequentialPairs : PlaceIn(s, p[1]) < PlaceIn(s, p[2])

\* C3 as stated: when the sequential edges are acyclic, every sequential
\* edge's source precedes its target in orderedNodeIds.
C3_Original ==
    ~HasSequentialCycle => EdgesGoForwardIn(ordering.orderedNodeIds)

\* C3 amended: when the sequential edges are acyclic, every sequential
\* edge's source precedes its target in sequentialOrderedNodeIds.
C3_EdgesForwardInSequentialOrder ==
    ~HasSequentialCycle => EdgesGoForwardIn(ordering.sequentialOrderedNodeIds)

\* an acyclic graph in which a node with two predecessors comes last although
\* its position sorts first
C3_Witness ==
    /\ ~HasSequentialCycle
    /\ \E c \in IdsOf(nodes) :
           /\ Cardinality({p \in SequentialPairs : p[2] = c}) = 2
           /\ nodeByIdOf(nodes)[c].position = [x |-> 0, y |-> 0]
           /\ \A n \in IdsOf(nodes) \ {c} : nodeByIdOf(nodes)[n].position.x = 1
           /\ ordering.sequentialOrderedNodeIds[3] = c

compareEdges(a, b) ==
    IF a.source # b.source THEN compareCodeUnits(a.source, b.source)
    ELSE IF a.target # b.target THEN compareCodeUnits(a.target, b.target)
    ELSE compareCodeUnits(IF a.edge_kind = "parallel" THEN <<0>> ELSE <<1>>,
                          IF b.edge_kind = "parallel" THEN <<0>> ELSE <<1>>)

compareIds(a, b) == compareCodeUnits(a.id, b.id)

\* C4: the result does not depend on the order of the node array or of the
\* edge array.  Every arrangement of the two arrays is a state of Spec, and
\* each is compared with the one arrangement sorted by id and by endpoints,
\* so any two arrangements of the same nodes and edges agree.
C4_SameForEveryArrangement ==
    ordering = computeFlowOrdering(StableSort(nodes, compareIds),
                                   StableSort(edges, compareEdges))

\* three nodes at one position, stored in the reverse of their id order,
\* and two different edges stored in the reverse of their sorted order
C4_Witness ==
    /\ Len(nodes) = 3
    /\ \A i \in 1..3 : nodes[i].position = [x |-> 0, y |-> 0]
    /\ nodes[1].id = <<99>> /\ nodes[2].id = <<98>> /\ nodes[3].id = <<97>>
    /\ Len(edges) = 2
    /\ compareEdges(edges[1], edges[2]) > 0
    /\ ordering.orderedNodeIds = <<<<97>>, <<98>>, <<99>>>>

\* the nodes joined to id by a chain of parallel edges, id included
ParallelComponentOf(id) == {id} \cup ReachableFrom(ParallelPairs, id)

\* C5: every node's sequence number is the least 1-based rank, in the
\* sequential order, among the nodes of its parallel-connected component;
\* a node with no parallel edge to another node keeps its own rank.
C5_GroupTakesMinimumRank ==
    LET o == ordering
    IN  \A id \in IdsOf(nodes) :
            LET ranks == {PlaceIn(o.sequentialOrderedNodeIds, m) :
                             m \in ParallelComponentOf(id)}
            IN  /\ o.sequenceByNodeId[id] \in ranks
                /\ \A r \in ranks : o.sequenceByNodeId[id] <= r

\* a chain a - b - c of two parallel edges: the node ranked third gets 1
C5_Witness ==
    /\ Len(nodes) = 3
    /\ \A id \in IdsOf(nodes) : ParallelComponentOf(id) = IdsOf(nodes)
    /\ \E id \in IdsOf(nodes) :
           /\ PlaceIn(ordering.sequentialOrderedNodeIds, id) = 3
           /\ ordering.sequenceByNodeId[id] = 1

\* a parallel edge joins two different nodes of the canvas
HasParallelGroup == \E p \in ParallelPairs : p[1] # p[2]

\* C18 as stated: every node's sequence number is its 1-based rank in
\* orderedNodeIds.
C18_Original ==
    \A id \in IdsOf(nodes) :
        ordering.sequenceByNodeId[id] = PlaceIn(ordering.orderedNodeIds, id)

\* C18 amended: a node's sequence number is at least 1 and at most its
\* 1-based rank in orderedNodeIds, the sequence numbers never decrease along
\* orderedNodeIds, and when no parallel edge joins two different nodes every
\* node's sequence number is its rank in orderedNodeIds.
C18_SequenceAtMostRank ==
    LET o == ordering
        seqAt(k) == o.sequenceByNodeId[o.orderedNodeIds[k]]
    IN  /\ \A k \in 1..Len(o.orderedNodeIds) : seqAt(k) >= 1 /\ seqAt(k) <= k
        /\ \A k \in 1..(Len(o.orderedNodeIds) - 1) : seqAt(k) <= seqAt(k + 1)
        /\ ~HasParallelGroup =>
               \A k \in 1..Len(o.orderedNodeIds) : seqAt(k) = k

\* three nodes in a sequential chain and no parallel group: the sequence
\* numbers are 1, 2, 3 along orderedNodeIds
C18_Witness ==
    /\ Len(nodes) = 3
    /\ ~HasParallelGroup
    /\ Cardinality(SequentialPairs) = 2
    /\ ~HasSequentialCycle
    /\ \A k \in 1..3 : ordering.sequenceByNodeId[ordering.orderedNodeIds[k]] = k

----------------------------------------------------------------------------
(* Claims about the project sequence identity, checked in every state of    *)
(* SpecIdentity against every single edit of that state.                    *)

RemoveAt(es, i) == [k \in 1..(Len(es) - 1) |-> IF k < i THEN es[k] ELSE es[k + 1]]

\* what the page shows as projectSequenceId for the arrays ns and es
IdentityOf(ns, es) == memoProjectSequenceId(computeFlowOrdering(ns, es), ns, es)

\* the edges of one kind that can be drawn between two nodes of the canvas
DrawableEdges(kind) ==
    {Edge(s, t, kind, FALSE) : s \in IdsOf(nodes), t \in IdsOf(nodes)}

\* the places of the edges of one kind whose two ends are on the canvas
PlacesOfKind(kind) ==
    {i \in 1..Len(edges) :
        /\ edges[i].edge_kind = kind
        /\ edges[i].source \in IdsOf(nodes)
        /\ edges[i].target \in IdsOf(nodes)}

\* the node array with the same ids in the same places and positions ps
Repositioned(ps) ==
    [i \in 1..Len(nodes) |-> [id |-> nodes[i].id, position |-> ps[i]]]

\* C6: adding a sequential edge between existing nodes, or removing one,
\* with nodes and the other edges unchanged, changes projectSequenceId.
C6_SequentialEdgeChangesIdentity ==
    /\ \A e \in DrawableEdges("sequential") :
           IdentityOf(nodes, Append(edges, e)) # projectSequenceId
    /\ \A i \in PlacesOfKind("sequential") :
           IdentityOf(nodes, RemoveAt(edges, i)) # projectSequenceId

\* a sequential edge has been drawn in the direction the nodes already had,
\* and the identity is not the one of the canvas without it
C6_Witness ==
    /\ Len(edges) = 1
    /\ edges[1].edge_kind = "sequential"
    /\ edges[1].source # edges[1].target
    /\ ordering.sequentialOrderedNodeIds = computeFlowOrdering(nodes, <<>>).sequentialOrderedNodeIds
    /\ projectSequenceId # IdentityOf(nodes, <<>>)

\* C7: switching the Direction of a sequential edge between forward and
\* reversed changes projectSequenceId.
C7_DirectionChangesIdentity ==
    \A i \in PlacesOfKind("sequential") :
        IdentityOf(nodes, [edges EXCEPT ![i].is_reversed = ~edges[i].is_reversed])
            # projectSequenceId

\* C8: adding or removing a parallel edge, with nodes, positions and
\* sequential edges unchanged, leaves projectSequenceId as it was.
C8_ParallelEdgeKeepsIdentity ==
    /\ \A e \in DrawableEdges("parallel") :
           IdentityOf(nodes, Append(edges, e)) = projectSequenceId
    /\ \A i \in PlacesOfKind("parallel") :
           IdentityOf(nodes, RemoveAt(edges, i)) = projectSequenceId

\* a parallel edge was added after a sequential one and changed the display
\* order, and the identity is the one of the canvas without it
C8_Witness ==
    /\ Len(edges) = 2
    /\ edges[1].edge_kind = "sequential"
    /\ edges[2].edge_kind = "parallel"
    /\ ordering.orderedNodeIds # ordering.sequentialOrderedNodeIds
    /\ projectSequenceId = IdentityOf(nodes, <<edges[1]>>)

\* C9: a graph with the same node ids and edges and other positions, for
\* which the sequential order is the same list, has the same token.
C9_PositionOnlyKeepsIdentity ==
    \A ps \in [1..Len(nodes) -> Positions] :
        computeFlowOrdering(Repositioned(ps), edges).sequentialOrderedNodeIds
                = ordering.sequentialOrderedNodeIds
            => IdentityOf(Repositioned(ps), edges) = projectSequenceId

\* the target of a sequential edge has been dragged in front of its source:
\* the positions say b, a and the sequential order is still a, b
C9_Witness ==
    /\ Len(edges) = 1
    /\ edges[1] = Edge(<<97>>, <<98>>, "sequential", FALSE)
    /\ compareNodeOrder(nodeByIdOf(nodes)[<<98>>], nodeByIdOf(nodes)[<<97>>]) < 0
    /\ ordering.sequentialOrderedNodeIds = <<<<97>>, <<98>>>>

----------------------------------------------------------------------------
(* The loops of computeFlowOrdering and computeParallelGroups, one          *)
(* iteration at a time: the while loop of Kahn's algorithm, the forEach     *)
(* over the sorted nodes and the while loop over the stack of a component.  *)

\* three nodes of which two share a position, and two nodes in one column
LoopNodeArrays ==
    {<<[id |-> <<99>>, position |-> [x |-> 0, y |-> 0]],
       [id |-> <<97>>, position |-> [x |-> 0, y |-> 0]],
       [id |-> <<98>>, position |-> [x |-> 1, y |-> 0]]>>,
     <<[id |-> <<98>>, position |-> [x |-> 0, y |-> 1]],
       [id |-> <<97>>, position |-> [x |-> 0, y |-> 0]]>>}

\* adjacency and indegree, as computeFlowOrdering builds them
sequentialGraph ==
    sequentialAdjacency(SelectSeq(edges, isSequentialEdge), IdsOf(nodes),
                        [adjacency |-> [id \in IdsOf(nodes) |-> <<>>],
                         indegree  |-> [id \in IdsOf(nodes) |-> 0]])

\* adjacency, as computeParallelGroups builds it
parallelNeighbors ==
    parallelAdjacency(edges, IdsOf(nodes), [id \in IdsOf(nodes) |-> <<>>])

\* computeFlowOrdering is called: available holds the nodes of indegree 0
InitLoops ==
    /\ nodes \in LoopNodeArrays
    /\ edges \in EdgeArrays
    /\ EditorIdle(FALSE)
    /\ NoFileTraffic
    /\ hashed = NotHashed
    /\ detected = NotDetected
    /\ session = [view |-> "editor", activeProjectId |-> <<80, 82, 74, 45, 65>>]
    /\ store = <<>>
    /\ pendingImport = NoPendingImport
    /\ run = [NotRunning EXCEPT
                 !.phase = "kahn",
                 !.indegree = sequentialGraph.indegree,
                 !.available =
                     StableSort(SelectSeq(nodes, LAMBDA n : sequentialGraph.indegree[n.id] = 0),
                                compareNodeOrder)]

loopsLeaveAlone ==
    UNCHANGED <<canvasVars, editorVars, fileVars, hashed, detected, sessionVars>>

\* the body of while (available.length > 0): shift, emit, release
afterKahnIteration ==
    LET current == Head(run.available)
        neighborIds == sequentialGraph.adjacency[current.id]
        sortedNeighbors ==
            StableSort([k \in 1..Len(neighborIds) |-> nodeByIdOf(nodes)[neighborIds[k]]],
                       compareNodeOrder)
        r == releaseNeighbors(sortedNeighbors, Tail(run.available), run.indegree)
    IN  [run EXCEPT !.available = r.available,
                    !.indegree = r.indegree,
                    !.orderedNodeIds = Append(@, current.id)]

\* one iteration of while (available.length > 0)
kahnIteration ==
    /\ run.phase = "kahn"
    /\ run.available # <<>>
    /\ run' = afterKahnIteration
    /\ loopsLeaveAlone

\* available is empty: the loop ends, and computeParallelGroups sorts the
\* nodes for its forEach
kahnLoopEnds ==
    /\ run.phase = "kahn"
    /\ run.available = <<>>
    /\ run' = [run EXCEPT !.phase = "forEach",
                          !.sortedNodes = StableSort(nodes, compareNodeOrder)]
    /\ loopsLeaveAlone

\* the callback of sortedNodes.forEach, up to its while loop: a visited
\* node and a node without neighbours are passed over
afterForEachIteration ==
    LET node == Head(run.sortedNodes)
    IN  IF node.id \in run.visited
        THEN [run EXCEPT !.sortedNodes = Tail(@)]
        ELSE IF parallelNeighbors[node.id] = <<>>
        THEN [run EXCEPT !.sortedNodes = Tail(@),
                         !.visited = @ \cup {node.id}]
        ELSE [run EXCEPT !.phase = "while",
                         !.sortedNodes = Tail(@),
                         !.visited = @ \cup {node.id},
                         !.stack = <<node.id>>,
                         !.pushed = Append(@, node.id),
                         !.component = <<>>]

\* one call of the callback of sortedNodes.forEach
forEachIteration ==
    /\ run.phase = "forEach"
    /\ run.sortedNodes # <<>>
    /\ run' = afterForEachIteration
    /\ loopsLeaveAlone

\* the body of while (stack.length > 0): pop, record, push the neighbours
\* that are not visited
afterWhileIteration ==
    LET currentNodeId == run.stack[Len(run.stack)]
        rest == SubSeq(run.stack, 1, Len(run.stack) - 1)
        currentNeighbors == StableSort(parallelNeighbors[currentNodeId], localeCompare)
        fresh == SelectSeq(currentNeighbors, LAMBDA n : n \notin run.visited)
    IN  [run EXCEPT !.stack = rest \o fresh,
                    !.pushed = @ \o fresh,
                    !.visited = @ \cup {fresh[k] : k \in 1..Len(fresh)},
                    !.component = Append(@, currentNodeId)]

\* one iteration of while (stack.length > 0)
whileIteration ==
    /\ run.phase = "while"
    /\ run.stack # <<>>
    /\ run' = afterWhileIteration
    /\ loopsLeaveAlone

\* the stack is empty: the component is sorted and kept
whileLoopEnds ==
    /\ run.phase = "while"
    /\ run.stack = <<>>
    /\ run' = [run EXCEPT !.phase = "forEach",
                          !.componentNodeIds =
                              Append(@, StableSort(run.component, localeCompare))]
    /\ loopsLeaveAlone

\* the forEach is through: both functions return
forEachEnds ==
    /\ run.phase = "forEach"
    /\ run.sortedNodes = <<>>
    /\ run' = [run EXCEPT !.phase = "returned"]
    /\ loopsLeaveAlone

NextLoops ==
    \/ kahnIteration
    \/ kahnLoopEnds
    \/ forEachIteration
    \/ whileIteration
    \/ whileLoopEnds
    \/ forEachEnds

SpecLoops == InitLoops /\ [][NextLoops]_vars

----------------------------------------------------------------------------
(* The import of a file that is picked by its name: detectTabularFormat    *)
(* looks at the name and then at the text.                                 *)

\* names with both extensions in lower, upper and mixed case, with another
\* extension, with the letters and no full stop, with the extension in the
\* middle, and the empty name
DetectNames ==
    {<<97, 46, 99, 115, 118>>,
     <<65, 46, 67, 83, 86>>,
     <<97, 46, 67, 115, 118>>,
     <<98, 46, 120, 109, 108>>,
     <<66, 46, 88, 77, 76>>,
     <<98, 46, 120, 77, 108>>,
     <<99, 46, 116, 120, 116>>,
     <<99, 115, 118>>,
     <<97, 46, 99, 115, 118, 46, 116, 120, 116>>,
     <<120, 109, 108, 46>>,
     <<>>}

\* the empty text, XML without rows, white space and an open tag, comma
\* separated cells, a plain word, a comma before and after <, and two rows
\* of the active project
DetectTexts ==
    {<<>>,
     <<60, 97, 47, 62>>,
     <<32, 32, 60, 120>>,
     <<97, 44, 98>>,
     <<104, 101, 108, 108, 111>>,
     <<44, 60>>,
     <<120, 60, 44>>,
     <<112, 114, 111, 106, 101, 99, 116, 95, 105, 100, 44, 110, 111, 100, 101, 95, 105, 100, 10, 80, 82, 74, 45, 65, 44, 97, 10, 80, 82, 74, 45, 65, 44, 98>>}

InitDetect ==
    /\ nodes = hydratedCanvas(StoredProject).nodes
    /\ edges = hydratedCanvas(StoredProject).edges
    /\ adminOptions = hydratedCanvas(StoredProject).adminOptions
    /\ controlledLanguageGlossary = hydratedCanvas(StoredProject).controlledLanguageGlossary
    /\ undoStack = <<>>
    /\ undoCaptureTimeoutRef = NoTimeout
    /\ transferFeedback = NoFeedback
    /\ NoFileTraffic
    /\ hashed = NotHashed
    /\ detected \in [name : DetectNames, text : DetectTexts, done : {FALSE},
                     format : {"none"}]
    /\ run = NotRunning
    /\ session = [view |-> "editor", activeProjectId |-> ActiveProjectId]
    /\ store = <<>>
    /\ pendingImport = NoPendingImport

\* importProjectDataFromFile for the file of the name and the text
importNamedFile ==
    /\ ~detected.done
    /\ detected' = [detected EXCEPT
                       !.done = TRUE,
                       !.format = detectTabularFormatOfName(detected.name, detected.text)]
    /\ editorBecomes(CHOOSE r \in {importedEditor([extension |-> matchedExtension(detected.name),
                                                    text |-> detected.text])} : TRUE)
    /\ UNCHANGED <<fileVars, hashed, run, sessionVars>>

NextDetect == importNamedFile

SpecDetect == InitDetect /\ [][NextDetect]_vars

----------------------------------------------------------------------------
(* The session: projects of the store are opened and left, the canvas is    *)
(* edited and saved by the effect that runs persistCurrentProjectState      *)
(* after every change, and an import waits for the text of its file.        *)

ProjectIdB == <<80, 82, 74, 45, 66>>

\* node.data.parallel_group_id: null or a string
NoGroup == [isNull |-> TRUE, value |-> <<>>]
GroupId(value) == [isNull |-> FALSE, value |-> value]

\* createNodeData: parallel_group_id is the trimmed string, or null when it
\* is not a string or is empty after the trim
normalizeNode(node) ==
    [node EXCEPT !.data.parallel_group_id =
        IF @.isNull \/ trim(@.value) = <<>> THEN NoGroup ELSE GroupId(trim(@.value))]

\* the nodes of an import: the rows give no parallel_group_id to the data
importedNodesWithData(ns) ==
    [k \in 1..Len(ns) |->
        [id |-> ns[k].id, position |-> ns[k].position,
         data |-> [parallel_group_id |-> NoGroup]]]

\* serializeNodesForStorage:
\* parallelGroupByNodeId[node.id] ?? node.data.parallel_group_id ?? null
serializeNodesForStorage(ns, parallelGroupByNodeId) ==
    [k \in 1..Len(ns) |->
        [id |-> ns[k].id, position |-> ns[k].position,
         data |-> [parallel_group_id |->
                      IF ns[k].id \in DOMAIN parallelGroupByNodeId
                      THEN GroupId(parallelGroupByNodeId[ns[k].id])
                      ELSE ns[k].data.parallel_group_id]]]

\* the store after persistCurrentProjectState has run for the session sess
\* and the editor state ns, es, options, glossary
persistedStore(sess, ns, es, options, glossary, st) ==
    IF sess.view # "editor" \/ sess.activeProjectId = <<>>
           \/ sess.activeProjectId \notin DOMAIN st
    THEN st
    ELSE [st EXCEPT ![sess.activeProjectId] =
             [nodes |-> serializeNodesForStorage(ns,
                            computeParallelGroups(ns, es).parallelGroupByNodeId),
              edges |-> es,
              adminOptions |-> adminOptionsAsValue(options),
              controlledLanguageGlossary |->
                  glossaryAsValue(sanitizeControlledLanguageGlossary(
                                      glossaryAsValue(glossary)))]]

\* the editor after loadProjectIntoEditor(project.canvas)
loadedEditor(canvas) ==
    LET hydrated == hydratedCanvas(canvas)
    IN  [hydrated EXCEPT !.nodes = [k \in 1..Len(@) |-> normalizeNode(@[k])]]

\* openProject from the dashboard: the canvas of the project is loaded, the
\* session shows the editor, and the effect saves the loaded canvas
openProjectAs(projectId, loaded) ==
    /\ nodes' = loaded.nodes
    /\ edges' = loaded.edges
    /\ adminOptions' = loaded.adminOptions
    /\ controlledLanguageGlossary' = loaded.controlledLanguageGlossary
    /\ undoStack' = <<>>
    /\ session' = [view |-> "editor", activeProjectId |-> projectId]
    /\ store' = persistedStore([view |-> "editor", activeProjectId |-> projectId],
                               loaded.nodes, loaded.edges, loaded.adminOptions,
                               loaded.controlledLanguageGlossary, store)
    /\ UNCHANGED <<undoCaptureTimeoutRef, transferFeedback, fileVars, hashed,
                   detected, run, pendingImport>>

openProject(projectId) ==
    /\ session.view = "dashboard"
    /\ projectId \in DOMAIN store
    /\ openProjectAs(projectId, CHOOSE r \in {loadedEditor(store[projectId])} : TRUE)

handleBackToDashboard ==
    /\ session.view = "editor"
    /\ store' = persistedStore(session, nodes, edges, adminOptions,
                               controlledLanguageGlossary, store)
    /\ session' = [view |-> "dashboard", activeProjectId |-> <<>>]
    /\ undoStack' = <<>>
    /\ UNCHANGED <<canvasVars, adminOptions, controlledLanguageGlossary,
                   undoCaptureTimeoutRef, transferFeedback, fileVars, hashed,
                   detected, run, pendingImport>>

\* an edit of the edges in the editor, and the save that follows it
edgesBecome(es) ==
    /\ edges' = es
    /\ queueUndoSnapshot
    /\ store' = persistedStore(session, nodes, es, adminOptions,
                               controlledLanguageGlossary, store)
    /\ UNCHANGED <<nodes, adminOptions, controlledLanguageGlossary, undoStack,
                   transferFeedback, fileVars, hashed, detected, run, session,
                   pendingImport>>

\* onConnect in the open project
onConnectInSession(source, target, kind) ==
    /\ session.view = "editor"
    /\ Len(edges) < MaxEdges
    /\ source \in IdsOf(nodes)
    /\ target \in IdsOf(nodes)
    /\ ~\E k \in 1..Len(edges) :
           /\ edges[k].source = source
           /\ edges[k].target = target
           /\ edges[k].edge_kind = kind
    /\ edgesBecome(Append(edges, Edge(source, target, kind, FALSE)))

\* onEdgesChange with a remove change in the open project
onEdgesChangeInSession(i) ==
    /\ session.view = "editor"
    /\ i \in 1..Len(edges)
    /\ edgesBecome([k \in 1..(Len(edges) - 1) |-> IF k < i THEN edges[k] ELSE edges[k + 1]])

\* importProjectDataFromFile up to its await: the callback holds the
\* project and the editor state of the render in which the file was picked.
\* The files of the model are files of the project PRJ-A, and the import
\* is followed when it starts there.
importStarts(file) ==
    /\ session.view = "editor"
    /\ session.activeProjectId = ActiveProjectId
    /\ ~pendingImport.pending
    /\ pendingImport' =
           [pending |-> TRUE, projectId |-> session.activeProjectId,
            text |-> file.text, extension |-> file.extension,
            snapshot |-> [nodes |-> nodes, edges |-> edges,
                          adminOptions |-> adminOptions,
                          controlledLanguageGlossary |-> controlledLanguageGlossary]]
    /\ UNCHANGED <<canvasVars, editorVars, fileVars, hashed, detected, run,
                   session, store>>

\* the rest of importProjectDataFromFile, with the outcome of the file for
\* the project the callback holds: the setters act on the editor as it is
\* now, and the effect saves under the project that is active now
importResumesWith(outcome) ==
    /\ transferFeedback' = outcome.feedback
    /\ IF outcome.applies
       THEN /\ nodes' = importedNodesWithData(outcome.nodes)
            /\ edges' = outcome.edges
            /\ adminOptions' = outcome.adminOptions
            /\ controlledLanguageGlossary' = outcome.controlledLanguageGlossary
            /\ undoCaptureTimeoutRef' =
                   IF undoCaptureTimeoutRef.pending THEN undoCaptureTimeoutRef
                   ELSE [pending |-> TRUE, snapshot |-> pendingImport.snapshot]
            /\ store' = persistedStore(session, importedNodesWithData(outcome.nodes),
                                       outcome.edges, outcome.adminOptions,
                                       outcome.controlledLanguageGlossary, store)
       ELSE UNCHANGED <<canvasVars, adminOptions, controlledLanguageGlossary,
                        undoCaptureTimeoutRef, store>>
    /\ pendingImport' = NoPendingImport
    /\ UNCHANGED <<undoStack, fileVars, hashed, detected, run, session>>

importResumes ==
    /\ pendingImport.pending
    /\ importResumesWith(
           ImportOutcomes[[extension |-> pendingImport.extension,
                           text |-> pendingImport.text]])

\* the store of two projects as earlier sessions left it: PRJ-A has two
\* nodes joined by a parallel edge, saved with their group; PRJ-B has one
StoredSession ==
    (ActiveProjectId :>
        [nodes |-> <<[id |-> <<97>>, position |-> [x |-> 0, y |-> 0],
                      data |-> [parallel_group_id |->
                                    GroupId(<<80, 71, 45, 97, 124, 98>>)]],
                     [id |-> <<98>>, position |-> [x |-> 1, y |-> 0],
                      data |-> [parallel_group_id |->
                                    GroupId(<<80, 71, 45, 97, 124, 98>>)]]>>,
         edges |-> <<Edge(<<97>>, <<98>>, "parallel", FALSE)>>,
         adminOptions |-> adminOptionsAsValue(DEFAULT_GLOBAL_OPTIONS),
         controlledLanguageGlossary |-> JsonArray(<<>>)])
    @@ (ProjectIdB :>
        [nodes |-> <<[id |-> <<99>>, position |-> [x |-> 0, y |-> 1],
                      data |-> [parallel_group_id |-> NoGroup]]>>,
         edges |-> <<>>,
         adminOptions |-> adminOptionsAsValue(DEFAULT_GLOBAL_OPTIONS),
         controlledLanguageGlossary |-> JsonArray(<<>>)])

SessionFiles == {DuplicateIdsCsv, OrderedCsv, OtherProjectCsv}

\* the ends of the connections that the user draws
SessionSources == {<<97>>}
SessionTargets == {<<98>>}

\* the dashboard of an account with the two projects
InitSession ==
    /\ nodes = <<>>
    /\ edges = <<>>
    /\ EditorIdle(FALSE)
    /\ NoFileTraffic
    /\ hashed = NotHashed
    /\ detected = NotDetected
    /\ run = NotRunning
    /\ session = [view |-> "dashboard", activeProjectId |-> <<>>]
    /\ store = StoredSession
    /\ pendingImport = NoPendingImport

\* an edit is followed while no snapshot waits for the undo timer
TimerIdle == ~undoCaptureTimeoutRef.pending

NextSession ==
    \/ \E projectId \in DOMAIN store : openProject(projectId)
    \/ handleBackToDashboard
    \/ \E s \in SessionSources, t \in SessionTargets, k \in EdgeKinds :
           TimerIdle /\ onConnectInSession(s, t, k)
    \/ \E i \in 1..MaxEdges : TimerIdle /\ onEdgesChangeInSession(i)
    \/ \E file \in SessionFiles : TimerIdle /\ importStarts(file)
    \/ importResumes

SpecSession == InitSession /\ [][NextSession]_vars

\* node ids of a store that another writer left: an id twice, an id with
\* white space around it, and an id that looks like a renamed duplicate
PersistedIds == {<<97>>, <<32, 97>>, <<97, 45, 49>>, <<98>>}

\* up to MaxNodes persisted nodes; the node at place k has x = k
PersistedNodeArrays ==
    UNION {[1..n -> PersistedIds] : n \in 1..MaxNodes}

persistedNodesOf(ids) ==
    [k \in 1..Len(ids) |->
        [id |-> ids[k], position |-> [x |-> k, y |-> 0],
         data |-> [parallel_group_id |-> NoGroup]]]

PersistedEdgeArrays ==
    {<<>>, <<Edge(<<98>>, <<97, 45, 49>>, "sequential", FALSE)>>}

\* the dashboard with one project whose canvas has such nodes
InitSanitize ==
    /\ nodes = <<>>
    /\ edges = <<>>
    /\ EditorIdle(FALSE)
    /\ NoFileTraffic
    /\ hashed = NotHashed
    /\ detected = NotDetected
    /\ run = NotRunning
    /\ session = [view |-> "dashboard", activeProjectId |-> <<>>]
    /\ \E ids \in PersistedNodeArrays, es \in PersistedEdgeArrays :
           store = (ActiveProjectId :>
                       [nodes |-> persistedNodesOf(ids), edges |-> es,
                        adminOptions |-> adminOptionsAsValue(DEFAULT_GLOBAL_OPTIONS),
                        controlledLanguageGlossary |-> JsonArray(<<>>)])
    /\ pendingImport = NoPendingImport

NextSanitize ==
    \/ \E projectId \in DOMAIN store : openProject(projectId)
    \/ handleBackToDashboard

SpecSanitize == InitSanitize /\ [][NextSanitize]_vars

----------------------------------------------------------------------------
(* Claims about the import of a file, checked in every state of             *)
(* SpecTransfer and of SpecEditor.                                          *)

\* the rows that the parser of the file's format returns
parsedRowsOf(file) ==
    IF detectTabularFormat(file.extension, file.text) = "csv"
    THEN parseCsvText(file.text).rows
    ELSE parseXmlText(file.text).rows

\* the editor shows the import of the file: its nodes, its edges and its
\* message
ShowsImportOf(file) ==
    /\ ImportOutcomes[file].applies
    /\ transferFeedback = ImportOutcomes[file].feedback
    /\ nodes = ImportOutcomes[file].nodes
    /\ edges = ImportOutcomes[file].edges

\* the order key of C17: node_order_id when it is a number, otherwise
\* sequence_index when it is a number, otherwise the place of the row
\* among the rows with a node id
claimedSortWeight(row, fallbackIndex) ==
    IF ~toNumeric(cellOf(row, node_order_id)).isNull
    THEN toNumeric(cellOf(row, node_order_id)).value
    ELSE IF ~toNumeric(cellOf(row, sequence_index)).isNull
    THEN toNumeric(cellOf(row, sequence_index)).value
    ELSE fallbackIndex + 1

compareClaimedSortWeight(a, b) ==
    claimedSortWeight(a.row, a.index) - claimedSortWeight(b.row, b.index)

\* the node ids of the file's rows of the active project, in the order of
\* the key of C17
claimedNodeOrder(file) ==
    LET nodeRecords == SelectSeq(projectRowsOf(parsedRowsOf(file)),
                                 LAMBDA row : trim(cellOf(row, node_id)) # <<>>)
        sorted == StableSort([k \in 1..Len(nodeRecords) |->
                                 [row |-> nodeRecords[k], index |-> k - 1]],
                             compareClaimedSortWeight)
    IN  [k \in 1..Len(sorted) |-> trim(cellOf(sorted[k].row, node_id))]

\* C17: the nodes of an imported file are in the order of the key that is
\* node_order_id when it is a finite number, otherwise sequence_index when
\* it is a finite number, otherwise the original position of the row; so a
\* row with an empty node_order_id and a numeric sequence_index is placed
\* by its sequence_index.  (The node ids of the files are distinct where the
\* order is compared, so that the ids of the nodes are the ids of the rows.)
C17_ImportOrderedByKey ==
    \A file \in ImportFiles \ {DuplicateIdsCsv} :
        ShowsImportOf(file) =>
            [k \in 1..Len(nodes) |-> nodes[k].id] = claimedNodeOrder(file)

\* the current values of the editor state that an import can replace
editorState ==
    [adminOptions |-> adminOptions,
     controlledLanguageGlossary |-> controlledLanguageGlossary,
     nodes |-> nodes,
     edges |-> edges,
     undoStack |-> undoStack]

\* the same values in the editor after an import
editorStateOf(imported) ==
    [adminOptions |-> imported.adminOptions,
     controlledLanguageGlossary |-> imported.controlledLanguageGlossary,
     nodes |-> imported.nodes,
     edges |-> imported.edges,
     undoStack |-> imported.undoStack]

IsPartOf(part, text) ==
    \E k \in 0..(Len(text) - Len(part)) : SubSeq(text, k + 1, k + Len(part)) = part

\* the file is parsed, has data rows, and none of them has the project_id
\* of the active project
RowOfActiveProject(row) ==
    \E key \in DOMAIN row : /\ trim(key) = project_id
                            /\ trim(row[key]) = ActiveProjectId

ParsesWithRows(file) ==
    /\ detectTabularFormat(file.extension, file.text) # "none"
    /\ detectTabularFormat(file.extension, file.text) = "xml"
           => ~parseXmlText(file.text).error
    /\ parsedRowsOf(file) # <<>>

FilesOfOtherProjects ==
    {file \in ImportFiles :
        /\ ParsesWithRows(file)
        /\ \A k \in 1..Len(parsedRowsOf(file)) :
               ~RowOfActiveProject(parsedRowsOf(file)[k])}

\* C13: when the parsed file has data rows and none of them has the
\* project_id of the active project, the import ends with an error message
\* that names the active project id, and nodes, edges, admin options,
\* glossary and undo stack stay as they are.
C13_NoRowOfProjectIsError ==
    \A file \in FilesOfOtherProjects :
        /\ importedEditor(file).transferFeedback.type = "error"
        /\ IsPartOf(ActiveProjectId, importedEditor(file).transferFeedback.message)
        /\ editorStateOf(importedEditor(file)) = editorState

\* a file of another project has been picked while the canvas had nodes
\* and the undo stack a snapshot
C13_Witness ==
    /\ FilesOfOtherProjects # {}
    /\ \E file \in FilesOfOtherProjects :
           transferFeedback = ImportOutcomes[file].feedback
    /\ transferFeedback.type = "error"
    /\ nodes # <<>>
    /\ edges # <<>>
    /\ undoStack # <<>>

\* the text is treated as XML and the XML parser reports an error
FilesOfInvalidXml ==
    {file \in ImportFiles :
        /\ detectTabularFormat(file.extension, file.text) = "xml"
        /\ parseFromString(file.text).parsererror}

\* C14: when the text is treated as XML and does not parse, the import
\* ends with the error message "Invalid XML file.", never with the
\* information that the file has no data rows and never with a successful
\* import, and the editor state stays as it is.
C14_InvalidXmlIsError ==
    \A file \in FilesOfInvalidXml :
        /\ importedEditor(file).transferFeedback = Feedback("error", InvalidXmlMessage)
        /\ editorStateOf(importedEditor(file)) = editorState
        /\ importedEditor(file).undoCaptureTimeoutRef = undoCaptureTimeoutRef

\* a file that is no XML document has been picked while the canvas had
\* nodes and the undo stack a snapshot
C14_Witness ==
    /\ FilesOfInvalidXml # {}
    /\ transferFeedback = Feedback("error", InvalidXmlMessage)
    /\ nodes # <<>>
    /\ undoStack # <<>>

PairwiseDistinctIds(items) ==
    \A i, j \in 1..Len(items) : i # j => items[i].id # items[j].id

EndsAmong(es, ns) ==
    \A k \in 1..Len(es) :
        /\ \E n \in 1..Len(ns) : ns[n].id = es[k].source
        /\ \E n \in 1..Len(ns) : ns[n].id = es[k].target

\* C15: after a successful import the node ids are pairwise distinct, the
\* edge ids are pairwise distinct, and the source and the target of every
\* edge are ids of imported nodes.
C15_ImportIsSanitized ==
    \A file \in PickedFiles :
        importedEditor(file).transferFeedback.type = "success" =>
            /\ PairwiseDistinctIds(importedEditor(file).nodes)
            /\ PairwiseDistinctIds(importedEditor(file).edges)
            /\ EndsAmong(importedEditor(file).edges, importedEditor(file).nodes)

\* the file with a node id on two rows, an edge id on two edges and an
\* edge to a node that is not in the file has been imported
C15_Witness ==
    /\ ShowsImportOf(DuplicateIdsCsv)
    /\ Len(nodes) = 3
    /\ Len(edges) = 3

\* the outcome of the import of the file that an export of the current
\* editor state downloads
reimported(extension) ==
    importOutcome([extension |-> extension, text |-> exportedFile(extension).text])

PositionsById(ns) == {<<ns[k].id, ns[k].position>> : k \in 1..Len(ns)}

ConnectionsOf(es) == {<<es[k].source, es[k].target, es[k].edge_kind>> : k \in 1..Len(es)}

SameCanvas(outcome) ==
    /\ outcome.applies
    /\ IdsOf(outcome.nodes) = IdsOf(nodes)
    /\ PositionsById(outcome.nodes) = PositionsById(nodes)
    /\ ConnectionsOf(outcome.edges) = ConnectionsOf(edges)

\* C12: the export of the project to CSV or to XML, imported into the same
\* project, gives the same set of node ids, the same position of every
\* node and the same set of edges (source, target, kind).
C12_ExportImportRoundTrip ==
    \A extension \in {"csv", "xml"} : SameCanvas(reimported(extension))

\* the same for the CSV export alone
C12_CsvRoundTrip == SameCanvas(reimported("csv"))

----------------------------------------------------------------------------
(* Claims about the canvas, checked in every state of SpecEditor.           *)

\* C16: in every state of the editor, after any load, import, connect,
\* reconnect, delete and undo, the source and the target of every edge are
\* ids of nodes on the canvas; an edge from a node to itself is allowed.
C16_EdgesEndOnCanvas == EndsAmong(edges, nodes)

\* one node is left with an edge to itself, after the other node and its
\* edges have been deleted
C16_Witness ==
    /\ Len(nodes) = 1
    /\ Len(edges) = 1
    /\ edges[1].source = edges[1].target
    /\ edges[1].source = nodes[1].id

----------------------------------------------------------------------------
(* Claims about the flat rows of an export, checked in every state of       *)
(* SpecTransfer.                                                            *)

\* the rows that an export of the current editor state is made of
currentFlatRows ==
    createFlatExportRows(nodes, ordering, adminOptions,
                         controlledLanguageGlossary, edges)

RowsOfNodes(rows, orderedNodeIds) ==
    /\ Len(rows) = Len(orderedNodeIds)
    /\ \A k \in 1..Len(rows) : rows[k][node_id] = orderedNodeIds[k]

PlaceholderRow(rows) ==
    /\ Len(rows) = 1
    /\ rows[1][node_id] = <<>>

ContextPopulated(rows) ==
    \A k \in 1..Len(rows) :
        /\ {FLAT_EXPORT_COLUMNS[c] : c \in 1..Len(FLAT_EXPORT_COLUMNS)} = DOMAIN rows[k]
        /\ rows[k][session_activeProjectId] = ActiveProjectId
        /\ rows[k][project_id] = ActiveProjectId

SameJsonOnEveryRow(rows) ==
    \A j, k \in 1..Len(rows) :
        /\ rows[j][project_edges_json] = rows[k][project_edges_json]
        /\ rows[j][project_admin_options_json] = rows[k][project_admin_options_json]

\* C19: createFlatExportRows returns one row per node, in the order of
\* orderedNodeIds, or one placeholder row with an empty node_id when there
\* is no node; the context columns are filled on every row, and
\* project_edges_json and project_admin_options_json have the same value on
\* every row.
C19_OneRowPerNode ==
    /\ Len(ordering.orderedNodeIds) = Len(nodes)
    /\ IF nodes = <<>>
       THEN PlaceholderRow(currentFlatRows)
       ELSE RowsOfNodes(currentFlatRows, ordering.orderedNodeIds)
    /\ ContextPopulated(currentFlatRows)
    /\ SameJsonOnEveryRow(currentFlatRows)

\* a project of three nodes has been exported
C19_Witness ==
    /\ fileText.written
    /\ Len(nodes) = 3
    /\ transferFeedback = exportedFeedback(fileText.extension, 3)

----------------------------------------------------------------------------
(* Claims about the format of a picked file, checked in every state of      *)
(* SpecDetect.                                                              *)

\* the name ends with a full stop and the three letters, each in lower or
\* in upper case
NameEndsLike(name, letters) ==
    /\ Len(name) >= 4
    /\ name[Len(name) - 3] = 46
    /\ \A k \in 1..3 :
           name[Len(name) - 3 + k] \in {letters[k], letters[k] - 32}

FirstVisibleIsLessThan(text) ==
    \E k \in 1..Len(text) : /\ text[k] = LessThan
                            /\ \A j \in 1..(k - 1) : text[j] \in WhiteSpace

HasComma(text) == \E k \in 1..Len(text) : text[k] = Comma

formatOfC21(name, text) ==
    IF NameEndsLike(name, <<99, 115, 118>>) THEN "csv"
    ELSE IF NameEndsLike(name, <<120, 109, 108>>) THEN "xml"
    ELSE IF FirstVisibleIsLessThan(text) THEN "xml"
    ELSE IF HasComma(text) THEN "csv"
    ELSE "none"

\* C21: detectTabularFormat decides by the extension of the name first,
\* .csv or .xml in any case of the letters and whatever the text is; with
\* another name the text decides: xml when its first character after white
\* space is <, else csv when it has a comma, else null; and with null the
\* import ends with an error message and changes nothing else.
C21_FormatByNameThenText ==
    detected.done =>
        /\ detected.format = formatOfC21(detected.name, detected.text)
        /\ detected.format = "none" =>
               /\ transferFeedback.type = "error"
               /\ editorState = [undoStack |-> <<>>] @@ hydratedCanvas(StoredProject)
               /\ undoCaptureTimeoutRef = NoTimeout

\* the file A.CSV with a text that starts with < has been taken as CSV
C21_Witness ==
    /\ detected.done
    /\ detected.name = <<65, 46, 67, 83, 86>>
    /\ detected.text = <<60, 97, 47, 62>>
    /\ detected.format = "csv"

----------------------------------------------------------------------------
(* Claims about the loops of the ordering, checked in SpecLoops.            *)

OccursAtMostOnce(ids) ==
    \A i, j \in 1..Len(ids) : ids[i] = ids[j] => i = j

\* what the loops have made is what the functions return
LoopsAgreeWithFunctions ==
    run.phase = "returned" =>
        /\ withUnresolved(nodes, run.orderedNodeIds)
               = computeFlowOrdering(nodes, edges).sequentialOrderedNodeIds
        /\ StableSort(run.componentNodeIds, compareComponents)
               = computeParallelGroups(nodes, edges).componentNodeIds

\* a number that bounds the iterations that are left: the nodes that are
\* not emitted, then the nodes that are not pushed, the stack, and the
\* nodes that forEach has not come to
IterationsLeft(r) ==
    IF r.phase = "returned" THEN 0
    ELSE IF r.phase = "kahn"
    THEN 4 * Len(nodes) + 2 + (Len(nodes) - Len(r.orderedNodeIds))
    ELSE 2 * (Len(nodes) - Len(r.pushed)) + Len(r.stack) + 2 * Len(r.sortedNodes)
             + 1 + (IF r.phase = "while" THEN 1 ELSE 0)

\* until the functions return, one of the loops has an iteration to take or
\* comes to its end
LoopsGoOn ==
    /\ run.phase \in {"kahn", "forEach", "while", "returned"}
    /\ IterationsLeft(run) >= 0
    /\ IterationsLeft(run) = 0 <=> run.phase = "returned"

\* C22: computeFlowOrdering and computeParallelGroups terminate on every
\* input, with sequential cycles, self-loops, duplicate edges and edges to
\* unknown ids: the Kahn loop emits each node at most once, the traversal
\* pushes each node at most once, and every iteration of a loop takes a
\* bounded number of iterations left down, to zero when both have returned.
C22_LoopsTerminate ==
    /\ [](OccursAtMostOnce(run.orderedNodeIds) /\ OccursAtMostOnce(run.pushed))
    /\ [](LoopsAgreeWithFunctions /\ LoopsGoOn)
    /\ [][IterationsLeft(run') < IterationsLeft(run)]_vars

\* both functions have returned for three nodes with a sequential cycle
\* between two of them: one node was emitted by the Kahn loop
C22_Witness ==
    /\ run.phase = "returned"
    /\ Len(nodes) = 3
    /\ Len(run.orderedNodeIds) = 1
    /\ \E i, j \in 1..Len(edges) :
           /\ isSequentialEdge(edges[i]) /\ isSequentialEdge(edges[j])
           /\ edges[i].source = edges[j].target
           /\ edges[i].target = edges[j].source
           /\ edges[i].source # edges[i].target

----------------------------------------------------------------------------
(* More claims about computeFlowOrdering and computeParallelGroups, checked *)
(* in every state of Spec.                                                  *)

\* a comes before b by x, then by y, then by id, or is b
NotAfter(a, b) ==
    \/ a.position.x < b.position.x
    \/ a.position.x = b.position.x /\ a.position.y < b.position.y
    \/ a.position.x = b.position.x /\ a.position.y = b.position.y
           /\ compareCodeUnits(a.id, b.id) <= 0

\* the nodes that are not among the first k - 1 of the list s and whose
\* sequential predecessors all are
ReadyAt(s, k) ==
    {id \in IdsOf(nodes) \ {s[j] : j \in 1..(k - 1)} :
        \A p \in SequentialPairs : p[2] = id => p[1] \in {s[j] : j \in 1..(k - 1)}}

\* the node at every place from 1 to n of s is the least of the ready nodes
GreedyUpTo(s, n) ==
    \A k \in 1..n :
        /\ s[k] \in ReadyAt(s, k)
        /\ \A id \in ReadyAt(s, k) : NotAfter(nodeByIdOf(nodes)[s[k]], nodeByIdOf(nodes)[id])

\* C23: for an acyclic sequential graph, the node at each place of
\* sequentialOrderedNodeIds is the least by x, then y, then id among the
\* nodes that are not emitted yet and whose sequential predecessors all
\* were emitted earlier.
C23_GreedyTopologicalOrder ==
    ~HasSequentialCycle =>
        GreedyUpTo(ordering.sequentialOrderedNodeIds, Len(nodes))

\* three nodes and two sequential edges without a cycle, where the first
\* node of the order is not the least of all nodes: the least one waits
\* for a predecessor
C23_Witness ==
    /\ Len(nodes) = 3
    /\ ~HasSequentialCycle
    /\ Cardinality(SequentialPairs) = 2
    /\ \E id \in IdsOf(nodes) :
           /\ \A other \in IdsOf(nodes) :
                  NotAfter(nodeByIdOf(nodes)[id], nodeByIdOf(nodes)[other])
           /\ ordering.sequentialOrderedNodeIds[1] # id
    /\ GreedyUpTo(ordering.sequentialOrderedNodeIds, 3)

\* the nodes on a sequential cycle
OnSequentialCycle == {id \in IdsOf(nodes) : id \in ReachableFrom(SequentialPairs, id)}

\* the nodes on a sequential cycle or reachable from one
HeldByCycle ==
    OnSequentialCycle
        \cup UNION {ReachableFrom(SequentialPairs, id) : id \in OnSequentialCycle}

\* the list s from place first on is in the order of x, then y, then id
SortedFrom(s, first) ==
    \A i \in first..Len(s) : \A j \in i..Len(s) :
        NotAfter(nodeByIdOf(nodes)[s[i]], nodeByIdOf(nodes)[s[j]])

\* C24: with a sequential cycle, sequentialOrderedNodeIds is a prefix of
\* exactly the nodes that are neither on a cycle nor reachable from one, in
\* which every sequential edge between two nodes of the prefix goes forward,
\* followed by all other nodes sorted by x, then y, then id.
C24_PrefixThenSortedRemainder ==
    HasSequentialCycle =>
        LET s == ordering.sequentialOrderedNodeIds
            n == Len(nodes) - Cardinality(HeldByCycle)
        IN  /\ Len(s) = Len(nodes)
            /\ {s[k] : k \in 1..n} = IdsOf(nodes) \ HeldByCycle
            /\ {s[k] : k \in (n + 1)..Len(s)} = HeldByCycle
            /\ \A p \in SequentialPairs :
                   p[1] \notin HeldByCycle /\ p[2] \notin HeldByCycle
                       => PlaceIn(s, p[1]) < PlaceIn(s, p[2])
            /\ SortedFrom(s, n + 1)

\* a self-loop on one node and a successor of it that sorts first: the
\* prefix is the third node, the remainder is sorted against the edge
C24_Witness ==
    /\ Len(nodes) = 3
    /\ Cardinality(OnSequentialCycle) = 1
    /\ Cardinality(HeldByCycle) = 2
    /\ \E p \in SequentialPairs :
           /\ p[1] # p[2]
           /\ PlaceIn(ordering.sequentialOrderedNodeIds, p[2])
                  < PlaceIn(ordering.sequentialOrderedNodeIds, p[1])
    /\ ordering.sequentialOrderedNodeIds[1] \notin HeldByCycle

\* the sequential edges of es between known nodes, as pairs
SequentialPairsOf(es) ==
    {<<es[k].source, es[k].target>> : k \in
        {i \in 1..Len(es) :
            /\ es[i].edge_kind = "sequential"
            /\ es[i].source \in IdsOf(nodes)
            /\ es[i].target \in IdsOf(nodes)}}

\* edge has the kind and the ends of one of the sequential edges
IsDuplicateSequentialEdge(edge) ==
    /\ edge.edge_kind = "sequential"
    /\ <<edge.source, edge.target>> \in SequentialPairs

HasUnknownEnd(edge) ==
    edge.source \notin IdsOf(nodes) \/ edge.target \notin IdsOf(nodes)

\* result is the result before; the sequential part of it is, where the
\* further edge is a parallel edge between known nodes
SameResultFor(edge, result, before) ==
    IF IsDuplicateSequentialEdge(edge) \/ HasUnknownEnd(edge)
    THEN result = before
    ELSE /\ result.sequentialOrderedNodeIds = before.sequentialOrderedNodeIds
         /\ result.hasCycle = before.hasCycle

\* every further edge that leaves the sequential pairs alone leaves the
\* result before alone
UnchangedByFurtherEdges(before) ==
    \A edge \in EdgeValues :
        SequentialPairsOf(Append(edges, edge)) = SequentialPairs
            => SameResultFor(edge, computeFlowOrdering(nodes, Append(edges, edge)), before)

\* C25: a further sequential edge with the ends of an existing one, or a
\* further edge of either kind with an unknown source or target, leaves the
\* whole result of computeFlowOrdering unchanged; and any further edge that
\* leaves the set of sequential pairs between known nodes unchanged leaves
\* sequentialOrderedNodeIds and hasCycle unchanged.
C25_DependsOnSequentialPairsOnly == UnchangedByFurtherEdges(ordering)

\* two sequential edges into one node, of which one is then given twice:
\* the node is still emitted, after both of its predecessors
C25_Witness ==
    /\ Len(nodes) = 3
    /\ Len(edges) = 2
    /\ Cardinality(SequentialPairs) = 2
    /\ ~HasSequentialCycle
    /\ \E id \in IdsOf(nodes) : \A p \in SequentialPairs : p[2] = id
    /\ \E edge \in EdgeValues :
           /\ IsDuplicateSequentialEdge(edge)
           /\ computeFlowOrdering(nodes, Append(edges, edge)) = ordering
    /\ \E edge \in EdgeValues :
           /\ HasUnknownEnd(edge)
           /\ edge.edge_kind = "parallel"
           /\ computeFlowOrdering(nodes, Append(edges, edge)) = ordering

\* the members of a component, as a set
MembersOf(component) == {component[k] : k \in 1..Len(component)}

\* the ids of the set M in ascending order
Ascending(M) ==
    CHOOSE s \in [1..Cardinality(M) -> M] :
        \A i, j \in 1..Cardinality(M) : i < j => compareCodeUnits(s[i], s[j]) < 0

RECURSIVE JoinedByBar(_)
JoinedByBar(ids) ==
    IF ids = <<>> THEN <<>>
    ELSE IF Len(ids) = 1 THEN ids[1]
    ELSE ids[1] \o <<124>> \o JoinedByBar(Tail(ids))

\* "PG-" and the ids of M in ascending order with "|" between them
GroupIdOf(M) == <<80, 71, 45>> \o JoinedByBar(Ascending(M))

\* the nodes that are an end of a parallel edge between known nodes
WithParallelEdge == {p[1] : p \in ParallelPairs}

\* groups is what computeParallelGroups returns for the connected
\* components of the parallel edges
AreTheComponents(groups) ==
    /\ DOMAIN groups.parallelGroupByNodeId = WithParallelEdge
    /\ \A a, b \in IdsOf(nodes) :
           a # b =>
               ((/\ a \in DOMAIN groups.parallelGroupByNodeId
                 /\ b \in DOMAIN groups.parallelGroupByNodeId
                 /\ groups.parallelGroupByNodeId[a] = groups.parallelGroupByNodeId[b])
                    <=> b \in ReachableFrom(ParallelPairs, a))
    /\ \A id \in DOMAIN groups.parallelGroupByNodeId :
           groups.parallelGroupByNodeId[id] = GroupIdOf(ParallelComponentOf(id))
    /\ \A i, j \in 1..Len(groups.componentNodeIds) :
           i # j => MembersOf(groups.componentNodeIds[i])
                        \cap MembersOf(groups.componentNodeIds[j]) = {}
    /\ \A i \in 1..Len(groups.componentNodeIds) :
           Len(groups.componentNodeIds[i])
               = Cardinality(MembersOf(groups.componentNodeIds[i]))
    /\ {MembersOf(groups.componentNodeIds[i]) : i \in 1..Len(groups.componentNodeIds)}
           = {ParallelComponentOf(id) : id \in WithParallelEdge}

\* C26: computeParallelGroups returns the connected components of the
\* parallel edges between known nodes: two different nodes have the same
\* parallelGroupByNodeId value exactly when a chain of parallel edges joins
\* them, the value is "PG-" and the sorted member ids joined by "|", and
\* the components are pairwise disjoint.
C26_GroupsAreComponents == AreTheComponents(computeParallelGroups(nodes, edges))

\* a chain b - a, a - c of two parallel edges given against the order of the
\* ids: one component "PG-a|b|c"
C26_Witness ==
    /\ Len(nodes) = 3
    /\ Len(edges) = 2
    /\ edges[1].edge_kind = "parallel" /\ edges[1].source = <<98>> /\ edges[1].target = <<97>>
    /\ edges[2].edge_kind = "parallel" /\ edges[2].source = <<99>> /\ edges[2].target = <<97>>
    /\ computeParallelGroups(nodes, edges).parallelGroupByNodeId[<<99>>]
           = <<80, 71, 45, 97, 124, 98, 124, 99>>
    /\ Len(computeParallelGroups(nodes, edges).componentNodeIds) = 1

\* groups has only components of two or more different members, and no
\* entry for a node without a parallel edge to another node
HasNoGroupOfOne(groups) ==
    /\ \A i \in 1..Len(groups.componentNodeIds) :
           Cardinality(MembersOf(groups.componentNodeIds[i])) >= 2
    /\ \A id \in IdsOf(nodes) :
           ReachableFrom(ParallelPairs, id) \subseteq {id}
               => id \notin DOMAIN groups.parallelGroupByNodeId

\* C28: every parallel group returned by computeParallelGroups has at least
\* two distinct members, and a node with no parallel edge to another node
\* (a node whose only parallel edge is a self-loop included) has no entry
\* in parallelGroupByNodeId.
C28_GroupsHaveTwoMembers == HasNoGroupOfOne(computeParallelGroups(nodes, edges))

----------------------------------------------------------------------------
(* Claims about the session, checked in SpecSession.                        *)

\* the parallel_group_id column of createFlatExportRows for a node:
\* node.data.parallel_group_id ?? ordering.parallelGroupByNodeId[node.id] ?? ""
exportedParallelGroupId(node, parallelGroupByNodeId) ==
    IF ~node.data.parallel_group_id.isNull THEN node.data.parallel_group_id.value
    ELSE IF node.id \in DOMAIN parallelGroupByNodeId
    THEN parallelGroupByNodeId[node.id]
    ELSE <<>>

\* the columns node_id and parallel_group_id of the rows that an export of
\* the editor state writes, in the order of orderedNodeIds
exportedGroupRows(orderedNodeIds, parallelGroupByNodeId) ==
    [k \in 1..Len(orderedNodeIds) |->
        [node_id |-> orderedNodeIds[k],
         parallel_group_id |->
             exportedParallelGroupId(nodeByIdOf(nodes)[orderedNodeIds[k]],
                                     parallelGroupByNodeId)]]

\* rows and saved carry, for every node, the group that groupOf has for
\* it, and the empty string or null when it has none
GroupIdsAreThoseOf(groupOf, rows, saved) ==
    /\ \A k \in 1..Len(rows) :
           rows[k].parallel_group_id
               = IF rows[k].node_id \in DOMAIN groupOf
                 THEN groupOf[rows[k].node_id] ELSE <<>>
    /\ \A k \in 1..Len(saved) :
           saved[k].data.parallel_group_id
               = IF saved[k].id \in DOMAIN groupOf
                 THEN GroupId(groupOf[saved[k].id]) ELSE NoGroup

\* C27: in every exported row and in every node that autosave has stored,
\* parallel_group_id is the group id that computeParallelGroups gives for
\* the node over the current edges, and empty or null for a node in no
\* group, also after parallel edges have been deleted.
C27_GroupIdIsCurrent ==
    session.view = "editor" =>
        GroupIdsAreThoseOf(computeParallelGroups(nodes, edges).parallelGroupByNodeId,
                           exportedGroupRows(ordering.orderedNodeIds,
                               computeParallelGroups(nodes, edges).parallelGroupByNodeId),
                           store[session.activeProjectId].nodes)

\* C30: when an import resumes while another project than the one it was
\* started in is open, it leaves the nodes and edges of the editor alone,
\* and nothing is stored under the id of that other project.
C30_ImportStaysInItsProject ==
    [][(pendingImport.pending /\ ~pendingImport'.pending
            /\ session.view = "editor"
            /\ session.activeProjectId # pendingImport.projectId)
           => (nodes' = nodes /\ edges' = edges /\ store' = store)]_vars

----------------------------------------------------------------------------
(* Claims about sanitizePersistedNodes, checked in SpecSanitize.            *)

\* the trimmed id of the node at place i is the trimmed id of no other node
OccursOnceIn(persistedNodes, i) ==
    \A j \in 1..Len(persistedNodes) :
        trim(persistedNodes[j].id) = trim(persistedNodes[i].id) => j = i

\* a node of persistedNodes whose trimmed id occurs once has that id in
\* sanitized, and an edge of es that ends at that id ends at that node
KeepsSingleIds(persistedNodes, sanitized, es) ==
    \A i \in 1..Len(persistedNodes) :
        OccursOnceIn(persistedNodes, i) =>
            /\ sanitized[i].id = trim(persistedNodes[i].id)
            /\ \A k \in 1..Len(es) :
                   es[k].target = trim(persistedNodes[i].id)
                       => sanitized[i].position = persistedNodes[i].position

\* C29: when a canvas is loaded, sanitizePersistedNodes leaves the trimmed
\* id of every node whose trimmed id occurs once in the input, so that the
\* edges that referenced the node still do.
C29_SingleIdsAreKept ==
    [][(session.view = "dashboard" /\ session'.view = "editor")
           => KeepsSingleIds(store[session'.activeProjectId].nodes, nodes', edges')]_vars

====
